---- MODULE Spec2Model ----
(***************************************************************************)
(* A model of the composite checklist write service                        *)
(* (checklist/services.py), of LessonProgress (lms/models.py) and of       *)
(* Answer.save (learningMS/models.py).                                     *)
(*                                                                         *)
(* The relational store is a record of tables; a table is a set of rows.   *)
(* A service call runs on a working copy of the store and either commits   *)
(* it or rolls it back, as transaction.atomic does.  Python exceptions are *)
(* the `exc' field of the running call.                                    *)
(***************************************************************************)
EXTENDS Integers, Sequences, FiniteSets, TLC

VARIABLES
    db,         \* the committed rows of the checklist app's tables
    last,       \* the last service call: payload, outcome, store before it
    proc,       \* concurrent create_full_checklist requests (SpecRace)
    lp,         \* one LessonProgress instance and what is saved of it
    answer,     \* one Answer instance and the question it answers
    checklist_progress,  \* ChecklistProgress rows and the last statistics call
    learning,   \* the learningMS tables: lessons, enrollments, lesson progress
    reviews,    \* Review rows of the lms and learningMS apps and the last request on a user's record
    lms         \* the lms app's course tables, its SystemLog, and the last request (SpecCourse, SpecAudit)

vars == <<db, last, proc, lp, answer, checklist_progress, learning, reviews, lms>>

(***************************************************************************)
(* Bounds of the model.                                                    *)
(***************************************************************************)
MaxChecklists == 2      \* checklist rows the store may hold
MaxSections == 2        \* sections in one payload
MaxItems == 2           \* items in one payload section
MaxRowId == 4           \* cap on the Sections / ListItem id sequences
MaxProcs == 2           \* concurrent create_full_checklist requests

(***************************************************************************)
(* Values.                                                                 *)
(***************************************************************************)
NoneV == "None"         \* Python's None in a text column
NullId == 0             \* a NULL foreign key

RECURSIVE SumSeq(_)
SumSeq(s) == IF s = <<>> THEN 0 ELSE Head(s) + SumSeq(Tail(s))

Range(s) == {s[i] : i \in DOMAIN s}
Max(a, b) == IF a >= b THEN a ELSE b

\* str.strip(): a string is a sequence of one-character strings.
Whitespace == {" "}
RECURSIVE LStrip(_)
LStrip(s) == IF s # <<>> /\ Head(s) \in Whitespace THEN LStrip(Tail(s)) ELSE s
RECURSIVE RStrip(_)
RStrip(s) ==
    IF s # <<>> /\ s[Len(s)] \in Whitespace THEN RStrip(SubSeq(s, 1, Len(s) - 1)) ELSE s
Strip(s) == RStrip(LStrip(s))

\* dict.get(key, default) and `key in dict' on a payload record.
HasKey(d, k) == k \in DOMAIN d
Get(d, k, default) == IF k \in DOMAIN d THEN d[k] ELSE default

(***************************************************************************)
(* The store.                                                              *)
(***************************************************************************)
RoleRows == {1, 2}      \* Role rows (ids); the composite service never writes Role

EmptyDb ==
    [ ctypes          |-> {},    \* ChecklistType: [id, name, description]
      checklists      |-> {},    \* Checklist: [id, name, description, phase, notes, checklist_type]
      checklist_roles |-> {},    \* Checklist.roles: <<checklist id, role id>>
      sections        |-> {},    \* Sections: [id, checklist, name, description, order]
      listitems       |-> {},    \* ListItem: [id, section, name, description]
      seq             |-> [ctypes |-> 0, checklists |-> 0, sections |-> 0, listitems |-> 0] ]

NoExc == [kind |-> "none", field |-> "", missing |-> {}]
ValidationError(f, m) == [kind |-> "ValidationError", field |-> f, missing |-> m]
IntegrityError(f) == [kind |-> "IntegrityError", field |-> f, missing |-> {}]

\* A running call: its working copy of the store, the exception it raised
\* (if any), its local variables checklist_type, checklist (id and instance) and section, and
\* (once the call is over) the working copy as it was when the call ended.
NoChecklist ==
    [id |-> NullId, name |-> NoneV, description |-> "", phase |-> NoneV, notes |-> "",
     checklist_type |-> NullId]
Begin(d) ==
    [db |-> d, exc |-> NoExc, ct |-> NullId, cid |-> NullId, sid |-> NullId,
     obj |-> NoChecklist, work |-> d]
Raise(tx, e) == [tx EXCEPT !.exc = e]
Failed(tx) == tx.exc.kind # "none"

SectionsOf(d, cid) == {s \in d.sections : s.checklist = cid}
ItemsOfSection(d, sid) == {i \in d.listitems : i.section = sid}
ItemsOf(d, cid) == {i \in d.listitems : \E s \in SectionsOf(d, cid) : i.section = s.id}
RolesOf(d, cid) == {l[2] : l \in {x \in d.checklist_roles : x[1] = cid}}
ChecklistRow(d, cid) == CHOOSE c \in d.checklists : c.id = cid
TypeNamed(d, n) == CHOOSE t \in d.ctypes : t.name = n

(***************************************************************************)
(* transaction.atomic: the working copy is committed when the function     *)
(* returns and discarded when it raises.                                   *)
(***************************************************************************)
Atomic(d, tx) == [tx EXCEPT !.db = IF Failed(tx) THEN d ELSE tx.db, !.work = tx.db]

(***************************************************************************)
(* ChecklistService.create_full_checklist                                  *)
(***************************************************************************)
\* ChecklistType.objects.get_or_create(name=..., defaults=...) with no
\* concurrent writer: the row of that name, inserted when there is none.
GetOrCreateType(tx, name, description) ==
    IF \E t \in tx.db.ctypes : t.name = name
    THEN [tx EXCEPT !.ct = TypeNamed(tx.db, name).id]
    ELSE LET id == tx.db.seq.ctypes + 1
         IN [tx EXCEPT !.db.ctypes = @ \cup {[id |-> id, name |-> name, description |-> description]},
                       !.db.seq.ctypes = id,
                       !.ct = id]

CreateResolveType(tx, payload) ==
    IF Failed(tx) \/ ~HasKey(payload, "checklist_type") THEN tx
    ELSE LET data == payload.checklist_type
             ct_id == Get(data, "id", NullId)
             ct_name == Get(data, "name", <<>>)
         IN IF ct_id # NullId
            THEN IF \E t \in tx.db.ctypes : t.id = ct_id
                 THEN [tx EXCEPT !.ct = ct_id]
                 ELSE Raise(tx, ValidationError("checklist_type", {}))
            ELSE IF ct_name # <<>>
                 THEN GetOrCreateType(tx, Strip(ct_name), Get(data, "description", ""))
                 ELSE tx

\* unique_together = ('name', 'checklist_type'); a NULL checklist_type never
\* collides.
ChecklistUniqueViolated(d, row) ==
    /\ row.checklist_type # NullId
    /\ \E c \in d.checklists :
          c.id # row.id /\ c.name = row.name /\ c.checklist_type = row.checklist_type

InsertChecklist(tx, payload) ==
    IF Failed(tx) THEN tx
    ELSE LET row == [ id             |-> tx.db.seq.checklists + 1,
                      name           |-> Get(payload, "name", NoneV),
                      description    |-> Get(payload, "description", ""),
                      phase          |-> Get(payload, "phase", NoneV),
                      notes          |-> Get(payload, "notes", ""),
                      checklist_type |-> tx.ct ]
         IN IF row.name = NoneV \/ row.phase = NoneV
            THEN Raise(tx, IntegrityError("checklist"))
            ELSE IF ChecklistUniqueViolated(tx.db, row)
            THEN Raise(tx, IntegrityError("checklist"))
            ELSE [tx EXCEPT !.db.checklists = @ \cup {row},
                            !.db.seq.checklists = row.id,
                            !.cid = row.id]

\* checklist.roles.set(roles_qs)
SetRoles(links, cid, found) ==
    {l \in links : l[1] # cid} \cup {<<cid, r>> : r \in found}

\* CreateAssignRoles without the check that every id was found.
CreateAssignRolesUnchecked(tx, payload) ==
    IF Failed(tx) THEN tx
    ELSE LET role_ids == Get(payload, "roles", <<>>)
             found == RoleRows \cap Range(role_ids)
         IN IF role_ids = <<>> THEN tx
            ELSE [tx EXCEPT !.db.checklist_roles = SetRoles(@, tx.cid, found)]

CreateAssignRoles(tx, payload) ==
    IF Failed(tx) THEN tx
    ELSE LET role_ids == Get(payload, "roles", <<>>)
             found == RoleRows \cap Range(role_ids)
         IN IF role_ids = <<>> THEN tx
            ELSE IF Cardinality(found) # Len(role_ids)
            THEN Raise(tx, ValidationError("roles", Range(role_ids) \ found))
            ELSE [tx EXCEPT !.db.checklist_roles = SetRoles(@, tx.cid, found)]

\* Sections.objects.create(...): name is NOT NULL, order is a
\* PositiveIntegerField; the section's checklist_type stays NULL, so
\* unique_together = ('checklist', 'checklist_type', 'name') never collides.
CreateSection(tx, sec) ==
    IF Failed(tx) THEN tx
    ELSE LET row == [ id          |-> tx.db.seq.sections + 1,
                      checklist   |-> tx.cid,
                      name        |-> Get(sec, "name", NoneV),
                      description |-> Get(sec, "description", ""),
                      order       |-> Get(sec, "order", 0) ]
         IN IF row.name = NoneV \/ row.order < 0
            THEN Raise(tx, IntegrityError("sections"))
            ELSE [tx EXCEPT !.db.sections = @ \cup {row},
                            !.db.seq.sections = row.id,
                            !.sid = row.id]

\* BulkCreateItems with the items left without their section (section is
\* nullable).
BulkCreateItemsNoSection(tx, items) ==
    IF Failed(tx) \/ items = <<>> THEN tx
    ELSE IF \E k \in DOMAIN items : Get(items[k], "name", NoneV) = NoneV
    THEN Raise(tx, IntegrityError("items"))
    ELSE LET base == tx.db.seq.listitems
             rows == { [ id          |-> base + k,
                         section     |-> NullId,
                         name        |-> items[k].name,
                         description |-> Get(items[k], "description", "") ] : k \in DOMAIN items }
         IN [tx EXCEPT !.db.listitems = @ \cup rows,
                       !.db.seq.listitems = base + Len(items)]

\* ListItem.objects.bulk_create(item_objs): one statement for the section's
\* items; name is NOT NULL.
BulkCreateItems(tx, items) ==
    IF Failed(tx) \/ items = <<>> THEN tx
    ELSE IF \E k \in DOMAIN items : Get(items[k], "name", NoneV) = NoneV
    THEN Raise(tx, IntegrityError("items"))
    ELSE LET base == tx.db.seq.listitems
             rows == { [ id          |-> base + k,
                         section     |-> tx.sid,
                         name        |-> items[k].name,
                         description |-> Get(items[k], "description", "") ] : k \in DOMAIN items }
         IN [tx EXCEPT !.db.listitems = @ \cup rows,
                       !.db.seq.listitems = base + Len(items)]

RECURSIVE CreateSections(_, _, _)
CreateSections(tx, sections_data, k) ==
    IF Failed(tx) \/ k > Len(sections_data) THEN tx
    ELSE CreateSections(
             BulkCreateItems(CreateSection(tx, sections_data[k]),
                             Get(sections_data[k], "items", <<>>)),
             sections_data, k + 1)

CreateBody(d, payload) ==
    CreateSections(
        CreateAssignRoles(
            InsertChecklist(CreateResolveType(Begin(d), payload), payload),
            payload),
        Get(payload, "sections", <<>>), 1)

create_full_checklist_no_atomic(d, payload) == CreateBody(d, payload)

create_full_checklist(d, payload) == Atomic(d, CreateBody(d, payload))

(***************************************************************************)
(* ChecklistService.update_full_checklist                                  *)
(***************************************************************************)
UpdateLoad(tx, checklist_id) ==
    IF \E c \in tx.db.checklists : c.id = checklist_id
    THEN [tx EXCEPT !.cid = checklist_id, !.obj = ChecklistRow(tx.db, checklist_id)]
    ELSE Raise(tx, ValidationError("checklist", {}))

SimpleFields == {"name", "description", "phase", "notes"}

UpdateSetFields(tx, payload) ==
    IF Failed(tx) THEN tx
    ELSE [tx EXCEPT !.obj = [f \in DOMAIN tx.obj |->
                                IF f \in SimpleFields /\ HasKey(payload, f)
                                THEN payload[f] ELSE tx.obj[f]]]

UpdateResolveType(tx, payload) ==
    IF Failed(tx) \/ ~HasKey(payload, "checklist_type") THEN tx
    ELSE LET ct_data == payload.checklist_type
             ct_id == Get(ct_data, "id", NullId)
             ct_name == Get(ct_data, "name", <<>>)
         IN IF ct_id # NullId
            THEN IF \E t \in tx.db.ctypes : t.id = ct_id
                 THEN [tx EXCEPT !.obj.checklist_type = ct_id]
                 ELSE Raise(tx, ValidationError("checklist_type", {}))
            ELSE IF ct_name # <<>>
                 THEN LET got == GetOrCreateType(tx, Strip(ct_name), Get(ct_data, "description", ""))
                      IN [got EXCEPT !.obj.checklist_type = got.ct]
                 ELSE tx

\* checklist.save(): an UPDATE of the row; name and phase are NOT NULL and
\* (name, checklist_type) is unique.
UpdateSave(tx) ==
    IF Failed(tx) THEN tx
    ELSE IF tx.obj.name = NoneV \/ tx.obj.phase = NoneV
    THEN Raise(tx, IntegrityError("checklist"))
    ELSE IF ChecklistUniqueViolated(tx.db, tx.obj)
    THEN Raise(tx, IntegrityError("checklist"))
    ELSE [tx EXCEPT !.db.checklists = {c \in @ : c.id # tx.cid} \cup {tx.obj}]

UpdateAssignRoles(tx, payload) ==
    IF Failed(tx) \/ ~HasKey(payload, "roles") THEN tx
    ELSE LET role_ids == payload.roles
             found == RoleRows \cap Range(role_ids)
         IN IF role_ids # <<>>
            THEN IF Cardinality(found) # Len(role_ids)
                 THEN Raise(tx, ValidationError("roles", Range(role_ids) \ found))
                 ELSE [tx EXCEPT !.db.checklist_roles = SetRoles(@, tx.cid, found)]
            ELSE [tx EXCEPT !.db.checklist_roles = {l \in @ : l[1] # tx.cid}]

\* DeleteSections that deletes nothing (the new sections are merged in).
DeleteSectionsKeepAll(tx) == tx

\* checklist.sections.all().delete(): ListItem.section is on_delete=CASCADE.
DeleteSections(tx) ==
    LET gone == {s.id : s \in SectionsOf(tx.db, tx.cid)}
    IN [tx EXCEPT !.db.sections = {s \in @ : s.id \notin gone},
                  !.db.listitems = {i \in @ : i.section \notin gone}]

\* UpdateReplaceSections that takes an absent key for an empty list.
UpdateReplaceSectionsAlways(tx, payload) ==
    IF Failed(tx) THEN tx
    ELSE CreateSections(DeleteSections(tx), Get(payload, "sections", <<>>), 1)

UpdateReplaceSections(tx, payload) ==
    IF Failed(tx) \/ ~HasKey(payload, "sections") THEN tx
    ELSE CreateSections(DeleteSections(tx), payload.sections, 1)

UpdateBody(d, checklist_id, payload) ==
    UpdateReplaceSections(
        UpdateAssignRoles(
            UpdateSave(
                UpdateResolveType(
                    UpdateSetFields(UpdateLoad(Begin(d), checklist_id), payload),
                    payload)),
            payload),
        payload)

update_full_checklist_no_atomic(d, checklist_id, payload) ==
    UpdateBody(d, checklist_id, payload)

update_full_checklist(d, checklist_id, payload) ==
    Atomic(d, UpdateBody(d, checklist_id, payload))

(***************************************************************************)
(* The payloads the service is called with.  A key that is absent from a   *)
(* payload is absent from the record.                                      *)
(***************************************************************************)
NoKeys == [k \in {} |-> 0]

ItemNameAt == <<"mic", "levels", "focus", "cable">>
SectionNameAt == <<"Audio", "Video", "Lights", "Network">>

\* m items; with bad set, the last one has no name.
ItemList(m, bad) ==
    [k \in 1..m |-> IF bad /\ k = m THEN [description |-> "unnamed"]
                    ELSE [name |-> ItemNameAt[k]]]

\* k sections; section i lists MaxItems - (i - 1) items (none below zero) and
\* odd positions carry an explicit order.  bad is "none", "section" (the
\* last section has no name) or "item" (the last item of the last section
\* has no name).
ItemCount(i) == Max(MaxItems - (i - 1), 0)
SectionList(k, bad) ==
    [i \in 1..k |->
        (IF bad = "section" /\ i = k THEN NoKeys ELSE [name |-> SectionNameAt[i]])
        @@ (IF i % 2 = 1 THEN [order |-> i] ELSE NoKeys)
        @@ [items |-> ItemList(ItemCount(i), bad = "item" /\ i = k)]]

GoodSectionLists == {SectionList(k, "none") : k \in 0..MaxSections}
BadSectionLists ==
    {SectionList(k, "section") : k \in 1..MaxSections}
    \cup {SectionList(k, "item") : k \in {x \in 1..MaxSections : ItemCount(x) > 0}}
SectionLists == GoodSectionLists \cup BadSectionLists

ScalarFull == [name |-> "n1", description |-> "d1", phase |-> "pre-stream", notes |-> "t1"]
ScalarMin == [name |-> "n2", phase |-> "on-stream"]
TypeByName(n) == [checklist_type |-> [name |-> n]]
TypeById(id) == [checklist_type |-> [id |-> id]]
Roles(r) == [roles |-> r]
SectionsKey(l) == [sections |-> l]

Payloads ==
    \* the nested sections vary
    {ScalarFull @@ TypeByName(<<"X">>) @@ Roles(<<1, 2>>) @@ SectionsKey(l) : l \in SectionLists}
    \* the roles vary, after a type that is created or reused, or is missing
    \cup {ScalarMin @@ t @@ Roles(r) :
             t \in {TypeByName(<<" ", "X">>), TypeById(2)}, r \in {<<1>>, <<2, 3>>, <<1, 1>>}}
    \* the checklist type is absent or linked by id
    \cup {ScalarMin @@ t : t \in {NoKeys, TypeById(1)}}
    \* partial payloads
    \cup {NoKeys, Roles(<<>>), SectionsKey(<<>>), SectionsKey(SectionList(1, "none")),
          Roles(<<3>>) @@ SectionsKey(SectionList(1, "none"))}

PayloadSections(p) == Get(p, "sections", <<>>)
PayloadItemCount(p) ==
    SumSeq([i \in DOMAIN PayloadSections(p) |-> Len(Get(PayloadSections(p)[i], "items", <<>>))])

\* The id sequences are capped: a call runs only while the rows it may
\* insert still have ids below the cap.
IdsLeft(p) ==
    /\ db.seq.sections + Len(PayloadSections(p)) <= MaxRowId
    /\ db.seq.listitems + PayloadItemCount(p) <= MaxRowId

(***************************************************************************)
(* State, sequential calls of the composite service.                       *)
(***************************************************************************)
NoCall == [op |-> "none", cid |-> NullId, payload |-> NoKeys, exc |-> NoExc,
           pre |-> EmptyDb, work |-> EmptyDb]

ProcIdle == <<>>
LpIdle == <<>>
AnswerIdle == <<>>
ProgressIdle == <<>>
LearningIdle == <<>>
ReviewsIdle == <<>>
LmsIdle == <<>>

Init ==
    /\ db = EmptyDb
    /\ last = NoCall
    /\ proc = ProcIdle
    /\ lp = LpIdle
    /\ answer = AnswerIdle
    /\ checklist_progress = ProgressIdle
    /\ learning = LearningIdle
    /\ reviews = ReviewsIdle
    /\ lms = LmsIdle

CreateFullChecklist(payload) ==
    /\ Cardinality(db.checklists) < MaxChecklists
    /\ IdsLeft(payload)
    /\ LET tx == create_full_checklist(db, payload)
       IN /\ db' = tx.db
          /\ last' = [op |-> "create", cid |-> tx.cid, payload |-> payload,
                      exc |-> tx.exc, pre |-> db, work |-> tx.work]
    /\ UNCHANGED <<proc, lp, answer, checklist_progress, learning, reviews, lms>>

UpdateFullChecklist(checklist_id, payload) ==
    /\ IdsLeft(payload)
    /\ LET tx == update_full_checklist(db, checklist_id, payload)
       IN /\ db' = tx.db
          /\ last' = [op |-> "update", cid |-> checklist_id, payload |-> payload,
                      exc |-> tx.exc, pre |-> db, work |-> tx.work]
    /\ UNCHANGED <<proc, lp, answer, checklist_progress, learning, reviews, lms>>

Next ==
    \/ \E payload \in Payloads : CreateFullChecklist(payload)
    \/ \E checklist_id \in 1..MaxChecklists, payload \in Payloads :
          UpdateFullChecklist(checklist_id, payload)

Spec == Init /\ [][Next]_vars

(***************************************************************************)
(* Concurrent create_full_checklist requests.                              *)
(*                                                                         *)
(* Each request runs in its own transaction over the store.  The store is  *)
(* the one section 5 of the specification describes: a transaction reads   *)
(* the committed rows and its own, an INSERT of a name that another open   *)
(* transaction has inserted waits for that transaction to end, and an      *)
(* INSERT of a name that a committed row holds fails on the uniqueness     *)
(* constraint, after which the now-existing row can be read.  Id sequences *)
(* are shared and never handed out twice.                                  *)
(***************************************************************************)
Procs == 1..MaxProcs
RaceTypeNames == {<<"X">>, <<" ", "X">>, <<"Y">>}
ChecklistNameAt == <<"n1", "n2", "n3", "n4">>

\* Request p: its own checklist name, a checklist type given by name, and
\* either a phase or none (without one the checklist row cannot be written).
RacePayloads(p) ==
    {[name |-> ChecklistNameAt[p]] @@ TypeByName(n) @@ ph :
        n \in RaceTypeNames, ph \in {[phase |-> "pre-stream"], NoKeys}}

Open(q) == proc[q].pc \in {"insert", "rest", "commit"}

\* What request p reads: the committed rows and its own.
View(p) ==
    [db EXCEPT !.ctypes = @ \cup proc[p].wtypes,
               !.checklists = @ \cup proc[p].wchecklists]

\* Another open transaction holds an uncommitted row of that name.
TypeInsertWaits(p, name) ==
    \E q \in Procs \ {p} : Open(q) /\ \E t \in proc[q].wtypes : t.name = name

\* The INSERT of get_or_create failed on the unique name.  get_or_create
\* reads the row again and returns it; when the row cannot be read the
\* IntegrityError reaches the except clause, which reads once more and raises
\* a ValidationError when there is still no row.  Without the re-read the
\* IntegrityError would leave the call.
TypeInsertConflictRaises(visible, name) ==
    [exc |-> IntegrityError("checklist_type"), ct |-> NullId]

TypeInsertConflict(visible, name) ==
    IF \E t \in visible : t.name = name
    THEN [exc |-> NoExc, ct |-> (CHOOSE t \in visible : t.name = name).id]
    ELSE [exc |-> ValidationError("checklist_type", {}), ct |-> NullId]

RaceIdle ==
    [pc |-> "start", payload |-> NoKeys, ct |-> NullId, cid |-> NullId, exc |-> NoExc,
     wtypes |-> {}, wchecklists |-> {}, conflict |-> FALSE]

InitRace ==
    /\ db = EmptyDb
    /\ last = NoCall
    /\ proc \in {[p \in Procs |-> [RaceIdle EXCEPT !.payload = f[p]]] :
                    f \in {g \in [Procs -> UNION {RacePayloads(p) : p \in Procs}] :
                              \A p \in Procs : g[p] \in RacePayloads(p)}}
    /\ lp = LpIdle
    /\ answer = AnswerIdle
    /\ checklist_progress = ProgressIdle
    /\ learning = LearningIdle
    /\ reviews = ReviewsIdle
    /\ lms = LmsIdle

RaceTypeName(p) == Strip(proc[p].payload.checklist_type.name)

\* The first read of get_or_create: the row of that name, if the request can
\* see one.
RaceGetType(p) ==
    /\ proc[p].pc = "start"
    /\ proc' = [proc EXCEPT ![p] =
          IF \E t \in View(p).ctypes : t.name = RaceTypeName(p)
          THEN [@ EXCEPT !.pc = "rest", !.ct = TypeNamed(View(p), RaceTypeName(p)).id]
          ELSE [@ EXCEPT !.pc = "insert"]]
    /\ UNCHANGED <<db, last, lp, answer, checklist_progress, learning, reviews, lms>>

\* The INSERT of get_or_create, in its savepoint.
RaceInsertType(p) ==
    /\ proc[p].pc = "insert"
    /\ ~TypeInsertWaits(p, RaceTypeName(p))
    /\ IF \E t \in db.ctypes : t.name = RaceTypeName(p)
       THEN LET got == TypeInsertConflict(View(p).ctypes, RaceTypeName(p))
            IN /\ proc' = [proc EXCEPT ![p] =
                     IF got.exc.kind = "none"
                     THEN [@ EXCEPT !.pc = "rest", !.ct = got.ct, !.conflict = TRUE]
                     ELSE [@ EXCEPT !.pc = "failed", !.exc = got.exc, !.conflict = TRUE,
                                    !.wtypes = {}, !.wchecklists = {}]]
               /\ db' = db
       ELSE LET id == db.seq.ctypes + 1
                row == [id |-> id, name |-> RaceTypeName(p),
                        description |-> Get(proc[p].payload.checklist_type, "description", "")]
            IN /\ proc' = [proc EXCEPT ![p].pc = "rest", ![p].ct = id,
                                       ![p].wtypes = @ \cup {row}]
               /\ db' = [db EXCEPT !.seq.ctypes = id]
    /\ UNCHANGED <<last, lp, answer, checklist_progress, learning, reviews, lms>>

\* The rest of the function body (the checklist row, the roles, the sections
\* and items) on what the request sees; an exception rolls the transaction
\* back.
RaceRest(p) ==
    /\ proc[p].pc = "rest"
    /\ LET tx == CreateSections(
                     CreateAssignRoles(
                         InsertChecklist([Begin(View(p)) EXCEPT !.ct = proc[p].ct],
                                         proc[p].payload),
                         proc[p].payload),
                     PayloadSections(proc[p].payload), 1)
       IN IF Failed(tx)
          THEN /\ proc' = [proc EXCEPT ![p].pc = "failed", ![p].exc = tx.exc,
                                       ![p].wtypes = {}, ![p].wchecklists = {}]
               /\ db' = db
          ELSE /\ proc' = [proc EXCEPT ![p].pc = "commit", ![p].cid = tx.cid,
                                       ![p].wchecklists = tx.db.checklists \ db.checklists]
               /\ db' = [db EXCEPT !.seq.checklists = tx.db.seq.checklists]
    /\ UNCHANGED <<last, lp, answer, checklist_progress, learning, reviews, lms>>

\* The transaction commits as the function returns.
RaceCommit(p) ==
    /\ proc[p].pc = "commit"
    /\ db' = [db EXCEPT !.ctypes = @ \cup proc[p].wtypes,
                        !.checklists = @ \cup proc[p].wchecklists]
    /\ proc' = [proc EXCEPT ![p].pc = "done", ![p].wtypes = {}, ![p].wchecklists = {}]
    /\ UNCHANGED <<last, lp, answer, checklist_progress, learning, reviews, lms>>

NextRace ==
    \E p \in Procs :
        \/ RaceGetType(p)
        \/ RaceInsertType(p)
        \/ RaceRest(p)
        \/ RaceCommit(p)

SpecRace == InitRace /\ [][NextRace]_vars

\* C5: when create_full_checklist requests that give the checklist type by
\* the same name run concurrently and no type of that name existed, exactly
\* one ChecklistType row of that name exists afterwards, no request fails
\* because of the race, and the checklists created reference that one row.
RaceValid(p) == HasKey(proc[p].payload, "phase")
C5_OneTypePerName ==
    /\ \A p \in Procs : proc[p].pc = "failed" => ~RaceValid(p)
    /\ \A t, u \in db.ctypes : t.name = u.name => t = u
    /\ \A p \in Procs : proc[p].pc = "done" =>
          /\ \E c \in db.checklists : c.id = proc[p].cid /\ c.checklist_type = proc[p].ct
          /\ \E t \in db.ctypes : t.id = proc[p].ct /\ t.name = RaceTypeName(p)
    /\ \A p, q \in Procs :
          (proc[p].pc = "done" /\ proc[q].pc = "done" /\ RaceTypeName(p) = RaceTypeName(q))
              => ChecklistRow(db, proc[p].cid).checklist_type
                    = ChecklistRow(db, proc[q].cid).checklist_type

\* Two requests for the same new type name have both returned, one of them
\* after its INSERT failed on the uniqueness constraint.
C5_Witness ==
    \E p, q \in Procs :
        /\ p # q
        /\ proc[p].pc = "done" /\ proc[q].pc = "done"
        /\ RaceTypeName(p) = RaceTypeName(q)
        /\ proc[p].payload # proc[q].payload
        /\ proc[q].conflict
        /\ Cardinality({t \in db.ctypes : t.name = RaceTypeName(p)}) = 1

(***************************************************************************)
(* Properties of the composite service.                                    *)
(***************************************************************************)
Tables(d) == [d EXCEPT !.seq = EmptyDb.seq]
CallFailed == last.exc.kind # "none"
CallOk(op) == last.op = op /\ ~CallFailed

Bijections(A, B) ==
    IF Cardinality(A) # Cardinality(B) THEN {}
    ELSE {f \in [A -> B] : \A a, b \in A : a # b => f[a] # f[b]}
SectionById(d, sid) == CHOOSE s \in d.sections : s.id = sid
ItemById(d, iid) == CHOOSE i \in d.listitems : i.id = iid

\* The rows of section sid are exactly the payload's items, one row each.
ItemsMatch(d, sid, items) ==
    \E g \in Bijections(DOMAIN items, {i.id : i \in ItemsOfSection(d, sid)}) :
        \A k \in DOMAIN items : ItemById(d, g[k]).name = items[k].name

\* The sections of checklist cid are exactly the payload's sections, one row
\* each, every one with the items listed for it.
SectionsMatch(d, cid, sections_data) ==
    \E f \in Bijections(DOMAIN sections_data, {s.id : s \in SectionsOf(d, cid)}) :
        \A i \in DOMAIN sections_data :
            /\ SectionById(d, f[i]).name = sections_data[i].name
            /\ ItemsMatch(d, f[i], Get(sections_data[i], "items", <<>>))

\* C1: when create_full_checklist fails, at whatever step, no table holds a
\* row the call wrote: every table is as it was before the call.
C1_CreateAllOrNothing ==
    (last.op = "create" /\ CallFailed) => Tables(db) = Tables(last.pre)

\* A create that failed on a list item, after it had written the type, the
\* checklist, the role links and a section.
C1_Witness ==
    /\ last.op = "create" /\ CallFailed /\ last.exc.field = "items"
    /\ last.work.ctypes # last.pre.ctypes
    /\ last.work.checklists # last.pre.checklists
    /\ last.work.checklist_roles # last.pre.checklist_roles
    /\ last.work.sections # last.pre.sections

\* C2: when update_full_checklist fails, the checklist's row (name,
\* description, phase, notes, checklist type), its role set, its sections and
\* its list items are as they were before the call.
C2_UpdateAllOrNothing ==
    (last.op = "update" /\ CallFailed) =>
        /\ db.checklists = last.pre.checklists
        /\ db.ctypes = last.pre.ctypes
        /\ \A c \in last.pre.checklists :
              /\ RolesOf(db, c.id) = RolesOf(last.pre, c.id)
              /\ SectionsOf(db, c.id) = SectionsOf(last.pre, c.id)
              /\ ItemsOf(db, c.id) = ItemsOf(last.pre, c.id)

\* An update that failed on a section or item of the payload after it had
\* saved the checklist and deleted the old sections and their items.
C2_Witness ==
    /\ last.op = "update" /\ CallFailed /\ last.exc.field \in {"sections", "items"}
    /\ last.work.checklists # last.pre.checklists
    /\ SectionsOf(last.pre, last.cid) # {}
    /\ SectionsOf(last.pre, last.cid) \cap last.work.sections = {}
    /\ ItemsOf(last.pre, last.cid) # {}
    /\ ItemsOf(last.pre, last.cid) \cap last.work.listitems = {}

\* C3: after a successful update whose payload has N sections, the checklist
\* has exactly N sections, each with exactly the items listed for it, and no
\* section or item it had before the call exists any more (by id).
C3_FullReplace ==
    (CallOk("update") /\ HasKey(last.payload, "sections")) =>
        /\ Cardinality(SectionsOf(db, last.cid)) = Len(last.payload.sections)
        /\ SectionsMatch(db, last.cid, last.payload.sections)
        /\ \A s \in SectionsOf(last.pre, last.cid) : \A t \in db.sections : t.id # s.id
        /\ \A i \in ItemsOf(last.pre, last.cid) : \A j \in db.listitems : j.id # i.id

\* A successful replacement of sections with items by sections with items.
C3_Witness ==
    /\ CallOk("update") /\ HasKey(last.payload, "sections")
    /\ Len(last.payload.sections) >= 1
    /\ ItemsOf(db, last.cid) # {}
    /\ ItemsOf(last.pre, last.cid) # {}

\* C4: a successful update without the 'sections' key leaves the checklist's
\* sections and items unchanged; without the 'roles' key it leaves the role
\* set unchanged; with 'roles': [] the role set is empty afterwards.
C4_PartialUpdate ==
    CallOk("update") =>
        /\ ~HasKey(last.payload, "sections") =>
              /\ SectionsOf(db, last.cid) = SectionsOf(last.pre, last.cid)
              /\ ItemsOf(db, last.cid) = ItemsOf(last.pre, last.cid)
        /\ ~HasKey(last.payload, "roles") =>
              RolesOf(db, last.cid) = RolesOf(last.pre, last.cid)
        /\ (HasKey(last.payload, "roles") /\ last.payload.roles = <<>>) =>
              RolesOf(db, last.cid) = {}

\* A successful update with 'roles': [] and no 'sections' key, of a checklist
\* that had roles, sections and items.
C4_Witness ==
    /\ CallOk("update")
    /\ ~HasKey(last.payload, "sections")
    /\ HasKey(last.payload, "roles") /\ last.payload.roles = <<>>
    /\ RolesOf(last.pre, last.cid) # {}
    /\ ItemsOf(last.pre, last.cid) # {}

\* C6: a successful create with k sections, m_i items under section i and r
\* distinct existing role ids adds exactly one checklist, with exactly k
\* sections, m_1 + ... + m_k items, each under the section it was listed
\* under, and r roles; a checklist_type given by name is reused when a type
\* of that (stripped) name exists and is created otherwise.
TypeGivenByName(p) ==
    /\ HasKey(p, "checklist_type")
    /\ Get(p.checklist_type, "id", NullId) = NullId
    /\ Get(p.checklist_type, "name", <<>>) # <<>>
C6_CreateCounts ==
    CallOk("create") =>
        /\ \E c \in db.checklists :
              /\ c.id = last.cid
              /\ db.checklists = last.pre.checklists \cup {c}
              /\ c \notin last.pre.checklists
              /\ TypeGivenByName(last.payload) =>
                    LET n == Strip(last.payload.checklist_type.name)
                    IN /\ \E t \in db.ctypes : t.name = n /\ t.id = c.checklist_type
                       /\ Cardinality({t \in db.ctypes : t.name = n}) = 1
                       /\ IF \E t \in last.pre.ctypes : t.name = n
                          THEN db.ctypes = last.pre.ctypes
                          ELSE Cardinality(db.ctypes) = Cardinality(last.pre.ctypes) + 1
        /\ Cardinality(SectionsOf(db, last.cid)) = Len(PayloadSections(last.payload))
        /\ Cardinality(ItemsOf(db, last.cid)) = PayloadItemCount(last.payload)
        /\ SectionsMatch(db, last.cid, PayloadSections(last.payload))
        /\ Cardinality(db.listitems) =
              Cardinality(last.pre.listitems) + PayloadItemCount(last.payload)
        /\ Cardinality(RolesOf(db, last.cid)) = Len(Get(last.payload, "roles", <<>>))
        /\ RolesOf(db, last.cid) = Range(Get(last.payload, "roles", <<>>))

\* A create of a second checklist with the most sections, items in more than
\* one section, two roles and a type that is reused.
C6_Witness ==
    /\ CallOk("create")
    /\ last.pre.checklists # {}
    /\ Len(PayloadSections(last.payload)) = MaxSections
    /\ PayloadItemCount(last.payload) > MaxItems
    /\ Cardinality(RolesOf(db, last.cid)) = 2
    /\ TypeGivenByName(last.payload)
    /\ db.ctypes = last.pre.ctypes

\* C7 as claimed: whenever the 'roles' list of a create or update payload
\* names an id with no Role row, the call fails with a validation error on
\* 'roles' that names exactly the missing ids, and nothing is persisted.
MissingRoles(p) == Range(Get(p, "roles", <<>>)) \ RoleRows
C7_AsClaimed ==
    (last.op \in {"create", "update"} /\ MissingRoles(last.payload) # {}) =>
        /\ last.exc = ValidationError("roles", MissingRoles(last.payload))
        /\ Tables(db) = Tables(last.pre)

\* C7 as amended: such a call fails and nothing is persisted; the failure is
\* the validation error on 'roles' naming exactly the missing ids unless a
\* step before the role association failed (the checklist to update does not
\* exist, the checklist type id does not exist, or the checklist row cannot
\* be written), in which case it is that step's error.
C7_MissingRolesRejected ==
    (last.op \in {"create", "update"} /\ MissingRoles(last.payload) # {}) =>
        /\ CallFailed
        /\ Tables(db) = Tables(last.pre)
        /\ \/ last.exc = ValidationError("roles", MissingRoles(last.payload))
           \/ last.exc.field \in {"checklist", "checklist_type"}

\* A call rejected for a missing role id after it had written a type and the
\* checklist row.
C7_Witness ==
    /\ last.op = "create"
    /\ last.exc = ValidationError("roles", MissingRoles(last.payload))
    /\ MissingRoles(last.payload) # Range(last.payload.roles)
    /\ last.work.ctypes # last.pre.ctypes
    /\ last.work.checklists # last.pre.checklists


(***************************************************************************)
(* LessonProgress (lms/models.py).                                         *)
(*                                                                         *)
(* lp.obj is the model instance the methods are called on, lp.row what     *)
(* save() last wrote, lp.log the number of "completed_lesson" ActivityLog  *)
(* rows and lp.now the clock timezone.now() reads.  Times and durations    *)
(* are whole seconds from 0.  progress_value is kept as an exact fraction: *)
(* over these ranges the float (max_time / duration) * 100 compares with   *)
(* 70 and with 100 as the fraction does.                                   *)
(***************************************************************************)
MaxTime == 7
MaxDuration == 10
MaxCalls == 3

CompletionThreshold == 70

RECURSIVE Gcd(_, _)
Gcd(a, b) == IF b = 0 THEN a ELSE Gcd(b, a % b)

\* num / den in lowest terms, den > 0.
Ratio(num, den) == [num |-> num \div Gcd(num, den), den |-> den \div Gcd(num, den)]
RatioLeq(x, y) == x.num * y.den <= y.num * x.den
RatioMin(x, y) == IF RatioLeq(y, x) /\ ~RatioLeq(x, y) THEN y ELSE x
Whole(n) == [num |-> n, den |-> 1]

ZeroDivisionError == [kind |-> "ZeroDivisionError", field |-> "", missing |-> {}]

\* completed_at is NULL, or holds one time.
NoTime == <<>>

\* A new LessonProgress: the field defaults.
LessonProgressNew ==
    [is_completed |-> FALSE, completed_at |-> NoTime, progress_value |-> Whole(0),
     session_data |-> NoKeys]

\* timezone.now(): the clock moves on with every reading.
Tick(st) == [st EXCEPT !.now = @ + 1]

\* self.save()
SaveProgress(st) == [st EXCEPT !.row = st.obj]

mark_completed_unguarded(st) ==
    LET t == Tick(st)
    IN [SaveProgress([t EXCEPT !.obj.is_completed = TRUE, !.obj.completed_at = <<t.now>>])
           EXCEPT !.log = @ + 1]

mark_completed(st) ==
    IF ~st.obj.is_completed
    THEN LET t == Tick(st)
         IN [SaveProgress([t EXCEPT !.obj.is_completed = TRUE, !.obj.completed_at = <<t.now>>])
                EXCEPT !.log = @ + 1]
    ELSE st

VideoMaxTimeLast(session_data, current_time) == current_time

VideoMaxTime(session_data, current_time) ==
    Max(Get(session_data, "max_time_reached", 0), current_time)

video_update_progress(st, current_time, duration) ==
    LET max_time == VideoMaxTime(st.obj.session_data, current_time)
        t == Tick(st)
        updated == [t EXCEPT !.obj.session_data =
                       [duration |-> duration, current_time |-> current_time,
                        max_time_reached |-> max_time, last_update_at |-> t.now] @@ @]
    IN IF duration = 0
       THEN [updated EXCEPT !.exc = ZeroDivisionError]
       ELSE LET progress == Ratio(max_time * 100, duration)
                saved == SaveProgress([updated EXCEPT !.obj.progress_value =
                                          RatioMin(progress, Whole(100))])
            IN IF RatioLeq(Whole(CompletionThreshold), saved.obj.progress_value)
               THEN mark_completed(saved)
               ELSE saved

document__update_progress(st) ==
    mark_completed([st EXCEPT !.obj.progress_value = Whole(100)])

Durations == {0, MaxDuration \div 2, MaxDuration}

NoArgs == [current_time |-> 0, duration |-> 0]

LpStart ==
    [obj |-> LessonProgressNew, row |-> LessonProgressNew, log |-> 0, now |-> 0,
     exc |-> NoExc, op |-> "none", args |-> NoArgs, pre |-> LessonProgressNew,
     prelog |-> 0, calls |-> 0, submitted |-> {}]

\* One call on the instance: the method's effect, and a record of the call.
LpCall(op, args, st) ==
    [st EXCEPT !.op = op, !.args = args, !.pre = lp.obj, !.prelog = lp.log,
               !.calls = lp.calls + 1,
               !.submitted = IF op = "video" THEN lp.submitted \cup {args.current_time}
                             ELSE lp.submitted]

InitVideo ==
    /\ db = EmptyDb
    /\ last = NoCall
    /\ proc = ProcIdle
    /\ lp = LpStart
    /\ answer = AnswerIdle
    /\ checklist_progress = ProgressIdle
    /\ learning = LearningIdle
    /\ reviews = ReviewsIdle
    /\ lms = LmsIdle

VideoUpdateProgress(current_time, duration) ==
    /\ lp.calls < MaxCalls
    /\ lp' = LpCall("video", [current_time |-> current_time, duration |-> duration],
                    video_update_progress([lp EXCEPT !.exc = NoExc], current_time, duration))
    /\ UNCHANGED <<db, last, proc, answer, checklist_progress, learning, reviews, lms>>

DocumentUpdateProgress ==
    /\ lp.calls < MaxCalls
    /\ lp' = LpCall("document", NoArgs, document__update_progress([lp EXCEPT !.exc = NoExc]))
    /\ UNCHANGED <<db, last, proc, answer, checklist_progress, learning, reviews, lms>>

MarkCompleted ==
    /\ lp.calls < MaxCalls
    /\ lp' = LpCall("mark", NoArgs, mark_completed([lp EXCEPT !.exc = NoExc]))
    /\ UNCHANGED <<db, last, proc, answer, checklist_progress, learning, reviews, lms>>

NextVideo ==
    \/ \E current_time \in 0..MaxTime, duration \in Durations :
          VideoUpdateProgress(current_time, duration)
    \/ DocumentUpdateProgress
    \/ MarkCompleted

SpecVideo == InitVideo /\ [][NextVideo]_vars

SetMax(S) == CHOOSE x \in S : \A y \in S : y <= x

\* C8: over any sequence of video_update_progress calls on one record,
\* session_data['max_time_reached'] never decreases, and after each call it
\* is the largest current_time submitted so far.
C8_MaxTimeMonotonic ==
    /\ lp.submitted # {} =>
          /\ HasKey(lp.obj.session_data, "max_time_reached")
          /\ lp.obj.session_data.max_time_reached = SetMax(lp.submitted)
    /\ lp.op # "none" =>
          Get(lp.obj.session_data, "max_time_reached", 0)
              >= Get(lp.pre.session_data, "max_time_reached", 0)

\* The third call rewinds: its current_time is below an earlier one, and
\* max_time_reached stays at the earlier one.
C8_Witness ==
    /\ lp.op = "video"
    /\ lp.calls = 3
    /\ Cardinality(lp.submitted) = 3
    /\ lp.args.current_time < SetMax(lp.submitted)
    /\ lp.args.current_time > 0
    /\ lp.obj.session_data.max_time_reached = SetMax(lp.submitted)
    /\ lp.obj.session_data.current_time = lp.args.current_time

Completed(o) == o.is_completed

\* C9: a record is completed by the first video_update_progress call that
\* ends with progress_value >= 70 (and by no video call that ends below it);
\* completion happens once: completed_at is stamped and one ActivityLog row
\* is written, and no later video_update_progress, document__update_progress
\* or mark_completed call resets is_completed, changes completed_at or writes
\* another row.
C9_CompletedOnce ==
    /\ (lp.op = "video" /\ lp.exc = NoExc) =>
          Completed(lp.obj) =
              (Completed(lp.pre)
                  \/ RatioLeq(Whole(CompletionThreshold), lp.obj.progress_value))
    /\ (lp.op = "video" /\ lp.exc # NoExc) => Completed(lp.obj) = Completed(lp.pre)
    /\ Completed(lp.obj) = (lp.log = 1)
    /\ Completed(lp.obj) = (lp.obj.completed_at # NoTime)
    /\ lp.log <= 1
    /\ Completed(lp.pre) =>
          /\ Completed(lp.obj)
          /\ lp.obj.completed_at = lp.pre.completed_at
          /\ lp.log = lp.prelog
    /\ Completed(lp.obj) => (lp.row.is_completed /\ lp.row.completed_at = lp.obj.completed_at)

\* Completed by a video call at exactly the threshold, then rewound by a
\* later video call whose own position is below the threshold.
C9_Witness ==
    /\ lp.op = "video"
    /\ lp.exc = NoExc
    /\ Completed(lp.pre)
    /\ lp.pre.progress_value = Whole(CompletionThreshold)
    /\ lp.pre.session_data.current_time = lp.pre.session_data.max_time_reached
    /\ lp.args.current_time * 100 < CompletionThreshold * lp.args.duration
    /\ Completed(lp.obj)
    /\ lp.log = 1

(***************************************************************************)
(* Answer.save (learningMS/models.py).                                     *)
(*                                                                         *)
(* Strings are sequences of characters over a small alphabet with both     *)
(* cases of a letter, a letter of one case only, and whitespace.           *)
(***************************************************************************)
MaxLen == 3

Chars == {"A", "B", "b", " "}

RECURSIVE Strings(_)
Strings(n) ==
    IF n = 0 THEN {<<>>}
    ELSE Strings(n - 1) \cup {Append(s, c) : s \in {t \in Strings(n - 1) : Len(t) = n - 1},
                                            c \in Chars}

\* str.lower() on one character.
LowerChar(c) == CASE c = "A" -> "a" [] c = "B" -> "b" [] OTHER -> c

Lower(s) == [i \in 1..Len(s) |-> LowerChar(s[i])]

QuestionTypes == {"mcq", "essay"}

AnswerMatchesExactly(answer_text, correct_answer) == answer_text = correct_answer

AnswerMatches(answer_text, correct_answer) ==
    Lower(Strip(answer_text)) = Lower(Strip(correct_answer))

\* Answer.save(): the instance after the call; super().save() writes it.
AnswerAfterSave(a) ==
    LET graded == IF a.question_type = "mcq"
                  THEN [a EXCEPT !.is_correct = AnswerMatches(a.answer_text, a.correct_answer)]
                  ELSE a
    IN [graded EXCEPT !.saved = TRUE, !.row_is_correct = graded.is_correct]

InitAnswer ==
    /\ db = EmptyDb
    /\ last = NoCall
    /\ proc = ProcIdle
    /\ lp = LpIdle
    /\ answer \in [question_type : QuestionTypes, correct_answer : Strings(MaxLen),
                   answer_text : Strings(MaxLen), is_correct : BOOLEAN, given : BOOLEAN,
                   saved : {FALSE}, row_is_correct : {FALSE}]
    /\ answer.given = answer.is_correct
    /\ checklist_progress = ProgressIdle
    /\ learning = LearningIdle
    /\ reviews = ReviewsIdle
    /\ lms = LmsIdle

AnswerSave ==
    /\ answer' = AnswerAfterSave(answer)
    /\ UNCHANGED <<db, last, proc, lp, checklist_progress, learning, reviews, lms>>

\* The caller sets is_correct on the instance (manual grading).
AnswerSetIsCorrect(flag) ==
    /\ answer.saved
    /\ answer' = [answer EXCEPT !.is_correct = flag, !.given = flag, !.saved = FALSE]
    /\ UNCHANGED <<db, last, proc, lp, checklist_progress, learning, reviews, lms>>

NextAnswer ==
    \/ AnswerSave
    \/ \E flag \in BOOLEAN : AnswerSetIsCorrect(flag)

SpecAnswer == InitAnswer /\ [][NextAnswer]_vars

\* s without its leading and trailing whitespace, by position.
Trimmed(s) ==
    LET inked == {i \in 1..Len(s) : s[i] \notin Whitespace}
    IN IF inked = {} THEN <<>>
       ELSE SubSeq(s, CHOOSE i \in inked : \A j \in inked : i <= j,
                      CHOOSE i \in inked : \A j \in inked : j <= i)

SameIgnoringCase(s, t) ==
    /\ Len(s) = Len(t)
    /\ \A i \in 1..Len(s) : LowerChar(s[i]) = LowerChar(t[i])

\* C10: saving an Answer to an 'mcq' question sets is_correct to whether
\* answer_text and the question's correct_answer are equal after trimming
\* surrounding whitespace and lower-casing both; for any other question type
\* save leaves is_correct as the caller set it.
C10_AutoGrade ==
    answer.saved =>
        /\ answer.row_is_correct = answer.is_correct
        /\ answer.question_type = "mcq" =>
              answer.is_correct =
                  SameIgnoringCase(Trimmed(answer.answer_text), Trimmed(answer.correct_answer))
        /\ answer.question_type # "mcq" => answer.is_correct = answer.given

\* The answer 'b ' to an mcq question whose correct answer is 'B' was saved
\* and marked correct although the caller had left is_correct false.
C10_Witness ==
    /\ answer.saved
    /\ answer.question_type = "mcq"
    /\ answer.answer_text = <<"b", " ">>
    /\ answer.correct_answer = <<"B">>
    /\ ~answer.given
    /\ answer.is_correct

(***************************************************************************)
(* ChecklistProgressService (checklist/services.py).                       *)
(*                                                                         *)
(* checklist_progress.rows is the ChecklistProgress table.  The checklist  *)
(* whose progress is recorded was written by create_full_checklist.        *)
(***************************************************************************)
MaxProgress == 3

Users == {1, 2}

ProgressStatuses == {"pending", "completed"}

\* The checklists progress is recorded on: one without items, one with a
\* section of MaxItems items.
ProgressPayloads ==
    {ScalarMin,
     ScalarFull @@ TypeByName(<<"X">>) @@ Roles(<<1, 2>>) @@ SectionsKey(SectionList(1, "none"))}

NoStats ==
    [op |-> "none", checklist |-> NullId, exc |-> NoExc, total_progress_records |-> 0,
     total_unique_users |-> 0, completed |-> 0, completion_percentage |-> Whole(0)]

ProgressStart == [rows |-> {}, seq |-> 0, stats |-> NoStats]

\* unique_together = ('items', 'user'); a NULL item never collides.
ProgressUniqueViolated(rows, row) ==
    /\ row.items # NullId
    /\ \E r \in rows : r.id # row.id /\ r.items = row.items /\ r.user = row.user

create_progress(st, d, user, checklist_id, list_item_id, status) ==
    IF ~\E c \in d.checklists : c.id = checklist_id
    THEN [st EXCEPT !.stats = [NoStats EXCEPT !.op = "create", !.checklist = checklist_id,
                                              !.exc = ValidationError("checklist", {})]]
    ELSE IF list_item_id # NullId /\ ~\E i \in d.listitems : i.id = list_item_id
    THEN [st EXCEPT !.stats = [NoStats EXCEPT !.op = "create", !.checklist = checklist_id,
                                              !.exc = ValidationError("items", {})]]
    ELSE LET row == [id |-> st.seq + 1, checklist |-> checklist_id, items |-> list_item_id,
                     status |-> status, user |-> user]
         IN IF ProgressUniqueViolated(st.rows, row)
            THEN [st EXCEPT !.stats = [NoStats EXCEPT !.op = "create",
                                                      !.checklist = checklist_id,
                                                      !.exc = IntegrityError("items")]]
            ELSE [st EXCEPT !.rows = @ \cup {row}, !.seq = row.id,
                            !.stats = [NoStats EXCEPT !.op = "create",
                                                      !.checklist = checklist_id]]

\* valid_statuses in update_progress_status and bulk_update_progress_status
ValidStatuses == {"pending", "in_progress", "completed", "blocked"}

update_progress_status(st, progress_id, status) ==
    IF status \notin ValidStatuses
    THEN [st EXCEPT !.stats = [NoStats EXCEPT !.op = "update",
                                              !.exc = ValidationError("status", {})]]
    ELSE IF ~\E r \in st.rows : r.id = progress_id
    THEN [st EXCEPT !.stats = [NoStats EXCEPT !.op = "update",
                                              !.exc = ValidationError("progress", {})]]
    ELSE [st EXCEPT !.rows = {IF r.id = progress_id THEN [r EXCEPT !.status = status] ELSE r :
                                 r \in @},
                    !.stats = [NoStats EXCEPT !.op = "update"]]

get_checklist_progress_stats(st, d, checklist_id) ==
    IF ~\E c \in d.checklists : c.id = checklist_id
    THEN [NoStats EXCEPT !.op = "stats", !.checklist = checklist_id,
                         !.exc = ValidationError("checklist", {})]
    ELSE LET progress_records == {r \in st.rows : r.checklist = checklist_id}
             total_progress == Cardinality(progress_records)
             completed == Cardinality({r \in progress_records : r.status = "completed"})
         IN [op |-> "stats", checklist |-> checklist_id, exc |-> NoExc,
             total_progress_records |-> total_progress,
             total_unique_users |-> Cardinality({r.user : r \in progress_records}),
             completed |-> completed,
             completion_percentage |->
                 IF total_progress > 0 THEN Ratio(completed * 100, total_progress)
                 ELSE Whole(0)]

InitProgress ==
    /\ db \in {create_full_checklist(EmptyDb, p).db : p \in ProgressPayloads}
    /\ last = NoCall
    /\ proc = ProcIdle
    /\ lp = LpIdle
    /\ answer = AnswerIdle
    /\ checklist_progress = ProgressStart
    /\ learning = LearningIdle
    /\ reviews = ReviewsIdle
    /\ lms = LmsIdle

CreateProgress(user, checklist_id, list_item_id, status) ==
    /\ checklist_progress.seq < MaxProgress
    /\ checklist_progress' =
          create_progress(checklist_progress, db, user, checklist_id, list_item_id, status)
    /\ UNCHANGED <<db, last, proc, lp, answer, learning, reviews, lms>>

UpdateProgressStatus(progress_id, status) ==
    /\ checklist_progress' = update_progress_status(checklist_progress, progress_id, status)
    /\ UNCHANGED <<db, last, proc, lp, answer, learning, reviews, lms>>

GetChecklistProgressStats(checklist_id) ==
    /\ checklist_progress' =
          [checklist_progress EXCEPT
              !.stats = get_checklist_progress_stats(checklist_progress, db, checklist_id)]
    /\ UNCHANGED <<db, last, proc, lp, answer, learning, reviews, lms>>

NextProgress ==
    \/ \E user \in Users, checklist_id \in 1..2, list_item_id \in 0..MaxItems + 1,
          status \in ProgressStatuses :
          CreateProgress(user, checklist_id, list_item_id, status)
    \/ \E progress_id \in 1..MaxProgress, status \in ProgressStatuses :
          UpdateProgressStatus(progress_id, status)
    \/ \E checklist_id \in 1..2 : GetChecklistProgressStats(checklist_id)

SpecProgress == InitProgress /\ [][NextProgress]_vars

\* The items of a checklist that a user has a 'completed' record of.
CompletedItems(d, rows, cid, user) ==
    {i \in ItemsOf(d, cid) :
        \E r \in rows : r.items = i.id /\ r.user = user /\ r.status = "completed"}

PercentageOfItems(d, rows, cid, user) ==
    IF ItemsOf(d, cid) = {} THEN Whole(0)
    ELSE Ratio(100 * Cardinality(CompletedItems(d, rows, cid, user)),
               Cardinality(ItemsOf(d, cid)))

\* C11: the completion percentage reported for a checklist is, for the user
\* it is reported to, 100 x (items of the checklist that user has completed)
\* / (items of the checklist); 0 when the checklist has no items and 100 when
\* the user has completed every item, whatever records other users have.
C11_PercentageOfItems ==
    (checklist_progress.stats.op = "stats" /\ checklist_progress.stats.exc = NoExc) =>
        \A user \in {r.user : r \in checklist_progress.rows} :
            checklist_progress.stats.completion_percentage =
                PercentageOfItems(db, checklist_progress.rows,
                                  checklist_progress.stats.checklist, user)

(***************************************************************************)
(* LessonService.complete_lesson (learningMS/services.py).                 *)
(*                                                                         *)
(* learning holds the Lesson, Enrollment and LessonProgress tables of the  *)
(* learningMS app.  A LessonProgress row exists for the lessons a crew     *)
(* member has completed.                                                   *)
(***************************************************************************)
MaxLessons == 3
MaxCompleteCalls == 3

Courses == {1, 2}
CrewMembers == {1, 2}

\* round(x) of Python for x = num / den >= 0: to the nearest integer, a tie
\* to the even one.  Up to 39 lessons round((c / t) * 100) on floats gives
\* the same value.
Round(num, den) ==
    LET q == num \div den
        r == num % den
    IN IF 2 * r < den THEN q
       ELSE IF 2 * r > den THEN q + 1
       ELSE IF q % 2 = 0 THEN q ELSE q + 1

NoLearningCall ==
    [op |-> "none", lesson |-> NullId, crew_member |-> NullId, exc |-> NoExc,
     had_row |-> FALSE, pre_rows |-> 0, pre_progress |-> 0, pre_total |-> 0]

LearningStart ==
    [lessons |-> {}, enrollments |-> {}, lesson_progress |-> {}, seq |-> 0, now |-> 0,
     call |-> NoLearningCall]

LessonsOfCourse(st, course) == {l \in st.lessons : l.course = course}

CourseOf(st, lesson) == (CHOOSE l \in st.lessons : l.id = lesson).course

CompletedLessonsAnyCourse(st, crew_member, course) ==
    {p \in st.lesson_progress : p.crew_member = crew_member}

\* LessonProgress.objects.filter(crew_member=..., lesson__course=...)
CompletedLessons(st, crew_member, course) ==
    {p \in st.lesson_progress :
        p.crew_member = crew_member /\ CourseOf(st, p.lesson) = course}

EnrollmentOf(st, crew_member, course) ==
    CHOOSE e \in st.enrollments : e.crew_member = crew_member /\ e.course = course

Enrolled(st, crew_member, course) ==
    \E e \in st.enrollments : e.crew_member = crew_member /\ e.course = course

complete_lesson(st, lesson, crew_member) ==
    LET course == CourseOf(st, lesson)
        called == [NoLearningCall EXCEPT
                      !.op = "complete", !.lesson = lesson, !.crew_member = crew_member,
                      !.had_row = [crew_member |-> crew_member, lesson |-> lesson]
                                     \in st.lesson_progress,
                      !.pre_rows = Cardinality(st.lesson_progress),
                      !.pre_total = Cardinality(LessonsOfCourse(st, course)),
                      !.pre_progress = IF Enrolled(st, crew_member, course)
                                       THEN EnrollmentOf(st, crew_member, course).overall_progress
                                       ELSE 0]
    IN IF ~Enrolled(st, crew_member, course)
       THEN [st EXCEPT !.call = [called EXCEPT !.exc = ValidationError("enrollment", {})]]
       ELSE LET enrollment == EnrollmentOf(st, crew_member, course)
                got == [st EXCEPT !.lesson_progress =
                           @ \cup {[crew_member |-> crew_member, lesson |-> lesson]},
                                  !.now = @ + 1]
                total_lessons == Cardinality(LessonsOfCourse(got, course))
                completed_lessons == Cardinality(CompletedLessons(got, crew_member, course))
                progress_percent == IF total_lessons > 0
                                    THEN Round(completed_lessons * 100, total_lessons)
                                    ELSE 0
                saved == [enrollment EXCEPT
                             !.overall_progress = progress_percent,
                             !.completed_at = IF progress_percent = 100
                                              THEN <<got.now>> ELSE @]
            IN [got EXCEPT !.enrollments = (@ \ {enrollment}) \cup {saved},
                           !.call = called]

\* EnrollmentService.enroll_user_in_course: get_or_create on (crew_member,
\* course).
enroll_user_in_course(st, crew_member, course) ==
    IF Enrolled(st, crew_member, course) THEN [st EXCEPT !.call = NoLearningCall]
    ELSE [st EXCEPT !.enrollments = @ \cup {[crew_member |-> crew_member, course |-> course,
                                            overall_progress |-> 0,
                                            completed_at |-> NoTime]},
                    !.call = NoLearningCall]

\* LessonService.create_lesson: a new Lesson row of the course.
create_lesson(st, course) ==
    [st EXCEPT !.lessons = @ \cup {[id |-> st.seq + 1, course |-> course]},
               !.seq = @ + 1, !.call = NoLearningCall]

InitLearning ==
    /\ db = EmptyDb
    /\ last = NoCall
    /\ proc = ProcIdle
    /\ lp = LpIdle
    /\ answer = AnswerIdle
    /\ checklist_progress = ProgressIdle
    /\ learning = LearningStart
    /\ reviews = ReviewsIdle
    /\ lms = LmsIdle

CreateLesson(course) ==
    /\ learning.seq < MaxLessons
    /\ learning' = create_lesson(learning, course)
    /\ UNCHANGED <<db, last, proc, lp, answer, checklist_progress, reviews, lms>>

EnrollUserInCourse(crew_member, course) ==
    /\ learning' = enroll_user_in_course(learning, crew_member, course)
    /\ UNCHANGED <<db, last, proc, lp, answer, checklist_progress, reviews, lms>>

CompleteLesson(lesson, crew_member) ==
    /\ learning.now < MaxCompleteCalls
    /\ \E l \in learning.lessons : l.id = lesson
    /\ learning' = complete_lesson(learning, lesson, crew_member)
    /\ UNCHANGED <<db, last, proc, lp, answer, checklist_progress, reviews, lms>>

NextLearning ==
    \/ \E course \in Courses : CreateLesson(course)
    \/ \E crew_member \in CrewMembers, course \in Courses :
          EnrollUserInCourse(crew_member, course)
    \/ \E lesson \in 1..MaxLessons, crew_member \in CrewMembers :
          CompleteLesson(lesson, crew_member)

SpecLearning == InitLearning /\ [][NextLearning]_vars

CompleteSucceeded == learning.call.op = "complete" /\ learning.call.exc = NoExc

CalledEnrollment ==
    EnrollmentOf(learning, learning.call.crew_member, CourseOf(learning, learning.call.lesson))

\* p is a whole percentage nearest to 100 * c / t.
NearestPercent(p, c, t) ==
    /\ 2 * (100 * c - p * t) <= t
    /\ 2 * (p * t - 100 * c) <= t

CompletedCount ==
    Cardinality({l \in LessonsOfCourse(learning, CourseOf(learning, learning.call.lesson)) :
                    [crew_member |-> learning.call.crew_member, lesson |-> l.id]
                        \in learning.lesson_progress})

\* After a successful complete_lesson: overall_progress is the whole-percent
\* rounding of 100 x completed / total, within 0..100, and completed_at is
\* set when it is 100.
ProgressAfterComplete ==
    CompleteSucceeded =>
        /\ NearestPercent(CalledEnrollment.overall_progress, CompletedCount,
                          Cardinality(LessonsOfCourse(learning,
                                                      CourseOf(learning, learning.call.lesson))))
        /\ CalledEnrollment.overall_progress \in 0..100
        /\ CalledEnrollment.overall_progress = 100 => CalledEnrollment.completed_at # NoTime

MaxReviews == 2

StaffUsers == {3}
Actors == Users \cup StaffUsers

PermissionDenied == [kind |-> "PermissionDenied", field |-> "", missing |-> {}]
Http404 == [kind |-> "Http404", field |-> "", missing |-> {}]

NoRequest ==
    [op |-> "none", table |-> "", id |-> NullId, actor |-> NullId, owner |-> NullId,
     exc |-> NoExc, changed |-> FALSE, gone |-> FALSE]

ReviewsStart == [lms |-> {}, learning |-> {}, seq |-> 0, req |-> NoRequest]

\* ChecklistProgressViewSet.get_queryset: staff see every row, other users
\* their own.
ProgressQueryset(rows, actor) ==
    IF actor \in StaffUsers THEN rows ELSE {r \in rows : r.user = actor}

\* The check of perform_update and perform_destroy.
ProgressMayModify(instance, actor) ==
    ~(instance.user # actor /\ actor \notin StaffUsers)

\* lms ReviewViewSet: permission_classes = [IsAuthenticated], queryset of
\* all reviews; destroy has no further check.
LmsReviewMayDestroy(instance, actor) == TRUE

\* ReviewService.update_review / delete_review: review.crew_member.user is
\* the reviewer.
LearningReviewMayModify(review, user) == ~(review.crew_member # user)

Request(op, table, id, actor, owner) ==
    [NoRequest EXCEPT !.op = op, !.table = table, !.id = id, !.actor = actor,
                      !.owner = owner]

InitOwnership ==
    /\ db \in {create_full_checklist(EmptyDb, ScalarMin).db}
    /\ last = NoCall
    /\ proc = ProcIdle
    /\ lp = LpIdle
    /\ answer = AnswerIdle
    /\ checklist_progress = ProgressStart
    /\ learning = LearningIdle
    /\ reviews = ReviewsStart
    /\ lms = LmsIdle

\* PUT/PATCH on a progress record: get_object() on the queryset, then
\* perform_update.
ProgressUpdate(actor, id, status) ==
    /\ \E r \in checklist_progress.rows : r.id = id
    /\ LET row == CHOOSE r \in checklist_progress.rows : r.id = id
           req == Request("update", "checklist_progress", id, actor, row.user)
       IN IF row \notin ProgressQueryset(checklist_progress.rows, actor)
          THEN /\ reviews' = [reviews EXCEPT !.req = [req EXCEPT !.exc = Http404]]
               /\ UNCHANGED <<checklist_progress, lms>>
          ELSE IF ~ProgressMayModify(row, actor)
          THEN /\ reviews' = [reviews EXCEPT !.req = [req EXCEPT !.exc = PermissionDenied]]
               /\ UNCHANGED <<checklist_progress, lms>>
          ELSE /\ checklist_progress' = update_progress_status(checklist_progress, id, status)
               /\ reviews' = [reviews EXCEPT !.req = [req EXCEPT !.changed = TRUE]]
    /\ UNCHANGED <<db, last, proc, lp, answer, learning, lms>>

\* DELETE on a progress record: get_object(), then perform_destroy.
ProgressDestroy(actor, id) ==
    /\ \E r \in checklist_progress.rows : r.id = id
    /\ LET row == CHOOSE r \in checklist_progress.rows : r.id = id
           req == Request("delete", "checklist_progress", id, actor, row.user)
       IN IF row \notin ProgressQueryset(checklist_progress.rows, actor)
          THEN /\ reviews' = [reviews EXCEPT !.req = [req EXCEPT !.exc = Http404]]
               /\ UNCHANGED <<checklist_progress, lms>>
          ELSE IF ~ProgressMayModify(row, actor)
          THEN /\ reviews' = [reviews EXCEPT !.req = [req EXCEPT !.exc = PermissionDenied]]
               /\ UNCHANGED <<checklist_progress, lms>>
          ELSE /\ checklist_progress' =
                     [checklist_progress EXCEPT !.rows = @ \ {row},
                                                !.stats = [NoStats EXCEPT !.op = "delete"]]
               /\ reviews' = [reviews EXCEPT !.req = [req EXCEPT !.gone = TRUE]]
    /\ UNCHANGED <<db, last, proc, lp, answer, learning, lms>>

\* POST to the lms ReviewViewSet: serializer.save(user=request.user);
\* unique_together = ("user", "course").
LmsReviewCreate(actor, course) ==
    /\ reviews.seq < MaxReviews
    /\ ~\E r \in reviews.lms : r.user = actor /\ r.course = course
    /\ reviews' = [reviews EXCEPT
          !.lms = @ \cup {[id |-> reviews.seq + 1, user |-> actor, course |-> course]},
          !.seq = @ + 1, !.req = NoRequest]
    /\ UNCHANGED <<db, last, proc, lp, answer, learning, checklist_progress, lms>>

\* DELETE on the lms ReviewViewSet.
LmsReviewDestroy(actor, id) ==
    /\ \E r \in reviews.lms : r.id = id
    /\ LET row == CHOOSE r \in reviews.lms : r.id = id
           req == Request("delete", "lms_review", id, actor, row.user)
       IN reviews' =
             IF LmsReviewMayDestroy(row, actor)
             THEN [reviews EXCEPT !.lms = @ \ {row}, !.req = [req EXCEPT !.gone = TRUE]]
             ELSE [reviews EXCEPT !.req = [req EXCEPT !.exc = PermissionDenied]]
    /\ UNCHANGED <<db, last, proc, lp, answer, learning, checklist_progress, lms>>

\* ReviewService.create_review: a Review of the crew member.
LearningReviewCreate(actor, course) ==
    /\ reviews.seq < MaxReviews
    /\ ~\E r \in reviews.learning : r.crew_member = actor /\ r.course = course
    /\ reviews' = [reviews EXCEPT
          !.learning = @ \cup {[id |-> reviews.seq + 1, crew_member |-> actor,
                                course |-> course, rating |-> 1]},
          !.seq = @ + 1, !.req = NoRequest]
    /\ UNCHANGED <<db, last, proc, lp, answer, learning, checklist_progress, lms>>

\* ReviewService.update_review(review, user, validated_data)
LearningReviewUpdate(actor, id, rating) ==
    /\ \E r \in reviews.learning : r.id = id
    /\ LET row == CHOOSE r \in reviews.learning : r.id = id
           req == Request("update", "learning_review", id, actor, row.crew_member)
       IN reviews' =
             IF LearningReviewMayModify(row, actor)
             THEN [reviews EXCEPT !.learning = (@ \ {row}) \cup {[row EXCEPT !.rating = rating]},
                                  !.req = [req EXCEPT !.changed = TRUE]]
             ELSE [reviews EXCEPT !.req = [req EXCEPT !.exc = ValidationError("review", {})]]
    /\ UNCHANGED <<db, last, proc, lp, answer, learning, checklist_progress, lms>>

\* ReviewService.delete_review(review, user)
LearningReviewDelete(actor, id) ==
    /\ \E r \in reviews.learning : r.id = id
    /\ LET row == CHOOSE r \in reviews.learning : r.id = id
           req == Request("delete", "learning_review", id, actor, row.crew_member)
       IN reviews' =
             IF LearningReviewMayModify(row, actor)
             THEN [reviews EXCEPT !.learning = @ \ {row}, !.req = [req EXCEPT !.gone = TRUE]]
             ELSE [reviews EXCEPT !.req = [req EXCEPT !.exc = ValidationError("review", {})]]
    /\ UNCHANGED <<db, last, proc, lp, answer, learning, checklist_progress, lms>>

\* A user records progress on the checklist (no item).
OwnProgressCreate(user) ==
    /\ checklist_progress.seq < MaxReviews
    /\ checklist_progress' = create_progress(checklist_progress, db, user, 1, NullId, "pending")
    /\ reviews' = [reviews EXCEPT !.req = NoRequest]
    /\ UNCHANGED <<db, last, proc, lp, answer, learning, lms>>

NextOwnership ==
    \/ \E user \in Users : OwnProgressCreate(user)
    \/ \E actor \in Actors, id \in 1..MaxReviews :
          ProgressUpdate(actor, id, "completed")
    \/ \E actor \in Actors, id \in 1..MaxReviews : ProgressDestroy(actor, id)
    \/ \E actor \in Users : LmsReviewCreate(actor, 1)
    \/ \E actor \in Actors, id \in 1..MaxReviews : LmsReviewDestroy(actor, id)
    \/ \E actor \in Users : LearningReviewCreate(actor, 1)
    \/ \E actor \in Actors, id \in 1..MaxReviews :
          LearningReviewUpdate(actor, id, 5)
    \/ \E actor \in Actors, id \in 1..MaxReviews : LearningReviewDelete(actor, id)

SpecOwnership == InitOwnership /\ [][NextOwnership]_vars

\* C13: an update or delete of a user's record (a Review, a
\* ChecklistProgress row) takes effect exactly when the actor is the record's
\* owner or is staff; for any other actor it is rejected and changes
\* nothing.  (The rejection is to be a permission error; here any error
\* counts as a rejection.)
C13_OwnerOrStaffOnly ==
    reviews.req.op # "none" =>
        IF reviews.req.actor = reviews.req.owner \/ reviews.req.actor \in StaffUsers
        THEN reviews.req.exc = NoExc /\ (reviews.req.changed \/ reviews.req.gone)
        ELSE /\ reviews.req.exc # NoExc
             /\ ~reviews.req.changed /\ ~reviews.req.gone

(***************************************************************************)
(* Section names within a checklist: the section endpoint                  *)
(* (SectionCreateUpdateSerializer + SectionViewSet), SectionService, and   *)
(* the composite service.  Sections are created without a checklist_type   *)
(* (checklist_type_id is None), so the sections' unique_together never     *)
(* collides; names carry no surrounding whitespace.                        *)
(***************************************************************************)
MaxSectionRows == 3

SectionNames == {"Audio", "audio", "Video"}

\* str.lower() on the section names in use, as name__iexact compares them.
LowerName(n) ==
    CASE n = "Audio" -> "audio"
      [] n = "Video" -> "video"
      [] OTHER -> n

\* Sections.objects.filter(checklist_id=checklist_id, name__iexact=name),
\* without the instance being updated (pk # exclude_pk).
SectionsNamedIExact(d, checklist_id, name, exclude_pk) ==
    {s \in d.sections : /\ s.checklist = checklist_id
                        /\ LowerName(s.name) = LowerName(name)
                        /\ s.id # exclude_pk}

\* SectionCreateUpdateSerializer.validate: TRUE when the data is accepted.
SectionSerializerValid(d, checklist_id, name, instance_pk) ==
    /\ \E c \in d.checklists : c.id = checklist_id
    /\ SectionsNamedIExact(d, checklist_id, name, instance_pk) = {}

\* SectionService.create_section(user, checklist_id, name, None, order)
create_section(d, checklist_id, name, order) ==
    IF ~(\E c \in d.checklists : c.id = checklist_id)
    THEN Raise(Begin(d), ValidationError("checklist", {}))
    ELSE CreateSection([Begin(d) EXCEPT !.cid = checklist_id],
                       [name |-> name, order |-> order])

\* SectionService.update_section(user, section_id, name=...)
update_section(d, section_id, name) ==
    IF ~(\E s \in d.sections : s.id = section_id)
    THEN Raise(Begin(d), ValidationError("section", {}))
    ELSE LET section == CHOOSE s \in d.sections : s.id = section_id
         IN [Begin(d) EXCEPT !.db.sections = (@ \ {section}) \cup {[section EXCEPT !.name = name]},
                             !.sid = section_id]

\* POST on the section endpoint: is_valid(), then perform_create.
section_endpoint_create(d, checklist_id, name) ==
    IF SectionSerializerValid(d, checklist_id, name, NullId)
    THEN create_section(d, checklist_id, name, 0)
    ELSE Raise(Begin(d), ValidationError("non_field_errors", {}))

\* PUT/PATCH on the section endpoint: the serializer validates the name
\* against the checklist_id of the request data; update_section ignores
\* checklist_id and keeps the section in its own checklist.
section_endpoint_update(d, section_id, checklist_id, name) ==
    IF SectionSerializerValid(d, checklist_id, name, section_id)
    THEN update_section(d, section_id, name)
    ELSE Raise(Begin(d), ValidationError("non_field_errors", {}))

\* Composite payloads whose sections are named from SectionNames.
NamedSectionLists ==
    {<<>>} \cup {<<[name |-> a]>> : a \in SectionNames}
           \cup {<<[name |-> a], [name |-> b]>> : a, b \in SectionNames}
NamedPayloads == {ScalarMin @@ SectionsKey(l) : l \in NamedSectionLists}

SectionCall(op, cid, payload, tx) ==
    [op |-> op, cid |-> cid, payload |-> payload, exc |-> tx.exc, pre |-> db, work |-> tx.work]

InitSections ==
    /\ db = EmptyDb
    /\ last = NoCall
    /\ proc = ProcIdle
    /\ lp = LpIdle
    /\ answer = AnswerIdle
    /\ checklist_progress = ProgressIdle
    /\ learning = LearningIdle
    /\ reviews = ReviewsIdle
    /\ lms = LmsIdle

SectionsCompositeCreate(payload) ==
    /\ db.seq.checklists < MaxChecklists
    /\ db.seq.sections + Len(PayloadSections(payload)) <= MaxSectionRows
    /\ LET tx == create_full_checklist(db, payload)
       IN /\ db' = tx.db
          /\ last' = SectionCall("create", tx.cid, payload, tx)
    /\ UNCHANGED <<proc, lp, answer, checklist_progress, learning, reviews, lms>>

SectionsCompositeUpdate(checklist_id, payload) ==
    /\ db.seq.sections + Len(PayloadSections(payload)) <= MaxSectionRows
    /\ LET tx == update_full_checklist(db, checklist_id, payload)
       IN /\ db' = tx.db
          /\ last' = SectionCall("update", checklist_id, payload, tx)
    /\ UNCHANGED <<proc, lp, answer, checklist_progress, learning, reviews, lms>>

SectionEndpointCreate(checklist_id, name) ==
    /\ db.seq.sections < MaxSectionRows
    /\ LET tx == section_endpoint_create(db, checklist_id, name)
       IN /\ db' = tx.db
          /\ last' = SectionCall("section_create", checklist_id,
                                 [checklist_id |-> checklist_id, name |-> name], tx)
    /\ UNCHANGED <<proc, lp, answer, checklist_progress, learning, reviews, lms>>

SectionEndpointUpdate(section_id, checklist_id, name) ==
    /\ LET tx == section_endpoint_update(db, section_id, checklist_id, name)
       IN /\ db' = tx.db
          /\ last' = SectionCall("section_update", checklist_id,
                                 [id |-> section_id, checklist_id |-> checklist_id,
                                  name |-> name], tx)
    /\ UNCHANGED <<proc, lp, answer, checklist_progress, learning, reviews, lms>>

SectionServiceCreate(checklist_id, name) ==
    /\ db.seq.sections < MaxSectionRows
    /\ LET tx == create_section(db, checklist_id, name, 0)
       IN /\ db' = tx.db
          /\ last' = SectionCall("create_section", checklist_id,
                                 [checklist_id |-> checklist_id, name |-> name], tx)
    /\ UNCHANGED <<proc, lp, answer, checklist_progress, learning, reviews, lms>>

NextSections ==
    \/ \E payload \in NamedPayloads : SectionsCompositeCreate(payload)
    \/ \E checklist_id \in 1..MaxChecklists, payload \in NamedPayloads :
          SectionsCompositeUpdate(checklist_id, payload)
    \/ \E checklist_id \in 1..MaxChecklists, name \in SectionNames :
          SectionEndpointCreate(checklist_id, name)
    \/ \E section_id \in 1..MaxSectionRows, checklist_id \in 1..MaxChecklists,
          name \in SectionNames :
          SectionEndpointUpdate(section_id, checklist_id, name)
    \/ \E checklist_id \in 1..MaxChecklists, name \in SectionNames :
          SectionServiceCreate(checklist_id, name)

SpecSections == InitSections /\ [][NextSections]_vars

\* C14: after any sequence of section-creating operations, no two Sections
\* rows of one checklist have names that are equal ignoring case.
C14_NoDuplicateSectionNames ==
    \A s1, s2 \in db.sections :
        (s1.id # s2.id /\ s1.checklist = s2.checklist)
            => LowerName(s1.name) # LowerName(s2.name)

\* The Sections row a composite call stored for position i of its payload:
\* rows are inserted in input order, with consecutive ids.
StoredSectionAt(i) == CHOOSE s \in db.sections : s.id = last.pre.seq.sections + i

\* C15: when sections of a composite create/update payload have no 'order'
\* field, the stored sections get order values generated from their position
\* in the input list: distinct, and increasing in input order.
C15_OrderFromPosition ==
    (last.op \in {"create", "update"} /\ last.exc = NoExc) =>
        \A i, j \in DOMAIN PayloadSections(last.payload) :
            (/\ i < j
             /\ ~HasKey(PayloadSections(last.payload)[i], "order")
             /\ ~HasKey(PayloadSections(last.payload)[j], "order"))
                => StoredSectionAt(i).order < StoredSectionAt(j).order

(***************************************************************************)
(* List item names within a section: ListItemService, the list item        *)
(* endpoint (ListItemCreateUpdateSerializer + ListItemViewSet) and the     *)
(* composite service.                                                      *)
(***************************************************************************)
MaxItemRows == 3

ItemNames == {"mic", "levels"}

\* ListItemService.create_list_item(user, section_id, name)
create_list_item(d, section_id, name) ==
    IF ~(\E s \in d.sections : s.id = section_id)
    THEN Raise(Begin(d), ValidationError("section", {}))
    ELSE BulkCreateItems([Begin(d) EXCEPT !.sid = section_id], <<[name |-> name]>>)

\* ListItemService.update_list_item(user, list_item_id, name=...)
update_list_item(d, list_item_id, name) ==
    IF ~(\E i \in d.listitems : i.id = list_item_id)
    THEN Raise(Begin(d), ValidationError("list_item", {}))
    ELSE LET list_item == CHOOSE i \in d.listitems : i.id = list_item_id
         IN [Begin(d) EXCEPT
                !.db.listitems = (@ \ {list_item}) \cup {[list_item EXCEPT !.name = name]}]

\* POST on the list item endpoint: validate_section_id, then perform_create.
list_item_endpoint_create(d, section_id, name) ==
    IF \E s \in d.sections : s.id = section_id
    THEN create_list_item(d, section_id, name)
    ELSE Raise(Begin(d), ValidationError("section_id", {}))

\* PUT/PATCH on the list item endpoint: validate_section_id, then
\* perform_update; update_list_item ignores section_id.
list_item_endpoint_update(d, list_item_id, section_id, name) ==
    IF \E s \in d.sections : s.id = section_id
    THEN update_list_item(d, list_item_id, name)
    ELSE Raise(Begin(d), ValidationError("section_id", {}))

\* Composite payloads: one section whose items are named from ItemNames.
NamedItemLists ==
    {<<>>} \cup {<<[name |-> a]>> : a \in ItemNames}
           \cup {<<[name |-> a], [name |-> b]>> : a, b \in ItemNames}
ItemPayloads ==
    {ScalarMin @@ SectionsKey(<<[name |-> "Audio", items |-> l]>>) : l \in NamedItemLists}

InitItems ==
    /\ db = EmptyDb
    /\ last = NoCall
    /\ proc = ProcIdle
    /\ lp = LpIdle
    /\ answer = AnswerIdle
    /\ checklist_progress = ProgressIdle
    /\ learning = LearningIdle
    /\ reviews = ReviewsIdle
    /\ lms = LmsIdle

ItemRowsLeft(payload) ==
    /\ db.seq.sections + Len(PayloadSections(payload)) <= MaxSectionRows
    /\ db.seq.listitems + PayloadItemCount(payload) <= MaxItemRows

ItemsCompositeCreate(payload) ==
    /\ db.seq.checklists < MaxChecklists
    /\ ItemRowsLeft(payload)
    /\ LET tx == create_full_checklist(db, payload)
       IN /\ db' = tx.db
          /\ last' = SectionCall("create", tx.cid, payload, tx)
    /\ UNCHANGED <<proc, lp, answer, checklist_progress, learning, reviews, lms>>

ItemsCompositeUpdate(checklist_id, payload) ==
    /\ ItemRowsLeft(payload)
    /\ LET tx == update_full_checklist(db, checklist_id, payload)
       IN /\ db' = tx.db
          /\ last' = SectionCall("update", checklist_id, payload, tx)
    /\ UNCHANGED <<proc, lp, answer, checklist_progress, learning, reviews, lms>>

ListItemServiceCreate(section_id, name) ==
    /\ db.seq.listitems < MaxItemRows
    /\ LET tx == create_list_item(db, section_id, name)
       IN /\ db' = tx.db
          /\ last' = SectionCall("create_list_item", NullId,
                                 [section_id |-> section_id, name |-> name], tx)
    /\ UNCHANGED <<proc, lp, answer, checklist_progress, learning, reviews, lms>>

ListItemEndpointCreate(section_id, name) ==
    /\ db.seq.listitems < MaxItemRows
    /\ LET tx == list_item_endpoint_create(db, section_id, name)
       IN /\ db' = tx.db
          /\ last' = SectionCall("list_item_create", NullId,
                                 [section_id |-> section_id, name |-> name], tx)
    /\ UNCHANGED <<proc, lp, answer, checklist_progress, learning, reviews, lms>>

ListItemEndpointUpdate(list_item_id, section_id, name) ==
    /\ LET tx == list_item_endpoint_update(db, list_item_id, section_id, name)
       IN /\ db' = tx.db
          /\ last' = SectionCall("list_item_update", NullId,
                                 [id |-> list_item_id, section_id |-> section_id,
                                  name |-> name], tx)
    /\ UNCHANGED <<proc, lp, answer, checklist_progress, learning, reviews, lms>>

NextItems ==
    \/ \E payload \in ItemPayloads : ItemsCompositeCreate(payload)
    \/ \E checklist_id \in 1..MaxChecklists, payload \in ItemPayloads :
          ItemsCompositeUpdate(checklist_id, payload)
    \/ \E section_id \in 1..MaxSectionRows, name \in ItemNames :
          ListItemServiceCreate(section_id, name)
    \/ \E section_id \in 1..MaxSectionRows, name \in ItemNames :
          ListItemEndpointCreate(section_id, name)
    \/ \E list_item_id \in 1..MaxItemRows, section_id \in 1..MaxSectionRows,
          name \in ItemNames :
          ListItemEndpointUpdate(list_item_id, section_id, name)

SpecItems == InitItems /\ [][NextItems]_vars

\* C20: after any sequence of list-item-creating operations, no two
\* ListItem rows of one section have the same name.
C20_UniqueItemNames ==
    \A i1, i2 \in db.listitems :
        (i1.id # i2.id /\ i1.section = i2.section) => i1.name # i2.name

\* C18: after every video_update_progress call, progress_value equals
\* min(100, 100 * max_time_reached / duration) and lies in 0..100, for every
\* current_time >= 0 and every duration; a call with duration 0 does not
\* leave the record with changed session data and no progress value (it
\* either computes a progress value or leaves session_data as it was).
C18_ProgressValue ==
    lp.op = "video" =>
        /\ lp.args.duration # 0 =>
              /\ lp.exc = NoExc
              /\ lp.obj.progress_value =
                    RatioMin(Ratio(100 * lp.obj.session_data.max_time_reached,
                                   lp.args.duration),
                             Whole(100))
              /\ RatioLeq(Whole(0), lp.obj.progress_value)
              /\ RatioLeq(lp.obj.progress_value, Whole(100))
        /\ lp.args.duration = 0 =>
              \/ lp.exc = NoExc
              \/ lp.obj.session_data = lp.pre.session_data

\* The progress_value of o is the one a video_update_progress call stored.
StoredByVideoCall(o) ==
    /\ HasKey(o.session_data, "duration")
    /\ o.session_data.duration # 0
    /\ o.progress_value =
          RatioMin(Ratio(100 * o.session_data.max_time_reached, o.session_data.duration),
                   Whole(100))

\* C19: over any sequence of video_update_progress calls on one record, the
\* stored progress_value after a call is never lower than before the call.
C19_ProgressNeverLower ==
    (lp.op = "video" /\ (lp.calls = 1 \/ StoredByVideoCall(lp.pre))) =>
        RatioLeq(lp.pre.progress_value, lp.obj.progress_value)

(***************************************************************************)
(* CourseFullCreateSerializer.create (lms): a course with nested lessons,  *)
(* assessments, questions and choices, inside transaction.atomic.          *)
(* lms.tables holds the committed rows; ids are per table.  An INSERT can  *)
(* fail in the database: the fault of a call names the statement (counted  *)
(* from 1 within the call) that raises DatabaseError, 0 for none.          *)
(***************************************************************************)
MaxCourseCalls == 2
MaxInserts == 7         \* the largest payload inserts 1 + 2 + 1 + 1 + 2 rows

DatabaseError == [kind |-> "DatabaseError", field |-> "", missing |-> {}]

CourseTables ==
    [ course     |-> {},    \* Course: [id, title]
      lesson     |-> {},    \* Lesson: [id, course, order]
      assessment |-> {},    \* Assessment: [id, course, title]
      question   |-> {},    \* Question: [id, assessment, order]
      choice     |-> {},    \* Choice: [id, question, text, is_correct]
      seq        |-> [course |-> 0, lesson |-> 0, assessment |-> 0, question |-> 0,
                      choice |-> 0] ]

\* A running create: the working copy of the tables, the exception raised,
\* the number of INSERT statements issued, and the last row's id per table.
CourseBegin(t, fault) ==
    [db |-> t, exc |-> NoExc, n |-> 0, fault |-> fault,
     course |-> NullId, assessment |-> NullId, question |-> NullId]

\* unique_together = ("course", "order") on Lesson
LessonUniqueViolated(t, table, row) ==
    /\ table = "lesson"
    /\ \E l \in t.lesson : l.course = row.course /\ l.order = row.order

\* Model.objects.create(**fields): one INSERT; the new row gets the next id.
ObjectsCreate(tx, table, fields) ==
    IF Failed(tx) THEN tx
    ELSE LET row == [id |-> tx.db.seq[table] + 1] @@ fields
             issued == [tx EXCEPT !.n = @ + 1]
         IN IF issued.n = tx.fault THEN Raise(issued, DatabaseError)
            ELSE IF LessonUniqueViolated(tx.db, table, row)
            THEN Raise(issued, IntegrityError("lesson"))
            ELSE [issued EXCEPT !.db[table] = @ \cup {row},
                                !.db.seq[table] = row.id]

CreatedId(tx, table) == tx.db.seq[table]

RECURSIVE CreateLessons(_, _, _)
CreateLessons(tx, lessons_data, k) ==
    IF Failed(tx) \/ k > Len(lessons_data) THEN tx
    ELSE CreateLessons(
             ObjectsCreate(tx, "lesson", [course |-> tx.course, order |-> lessons_data[k].order]),
             lessons_data, k + 1)

RECURSIVE CreateChoices(_, _, _)
CreateChoices(tx, choices_data, k) ==
    IF Failed(tx) \/ k > Len(choices_data) THEN tx
    ELSE CreateChoices(
             ObjectsCreate(tx, "choice",
                           [question |-> tx.question, text |-> choices_data[k].text,
                            is_correct |-> choices_data[k].is_correct]),
             choices_data, k + 1)

RECURSIVE CreateQuestions(_, _, _)
CreateQuestions(tx, questions_data, k) ==
    IF Failed(tx) \/ k > Len(questions_data) THEN tx
    ELSE LET q == ObjectsCreate(tx, "question",
                                [assessment |-> tx.assessment,
                                 order |-> questions_data[k].order])
             question == IF Failed(q) THEN q ELSE [q EXCEPT !.question = CreatedId(q, "question")]
         IN CreateQuestions(CreateChoices(question, questions_data[k].choices, 1),
                            questions_data, k + 1)

\* NestedAssessmentSerializer.create, for each assessment of the payload
RECURSIVE CreateAssessments(_, _, _)
CreateAssessments(tx, assessments_data, k) ==
    IF Failed(tx) \/ k > Len(assessments_data) THEN tx
    ELSE LET a == ObjectsCreate(tx, "assessment",
                                [course |-> tx.course, title |-> assessments_data[k].title])
             assessment == IF Failed(a) THEN a
                           ELSE [a EXCEPT !.assessment = CreatedId(a, "assessment")]
         IN CreateAssessments(CreateQuestions(assessment, assessments_data[k].questions, 1),
                              assessments_data, k + 1)

CourseCreateBody(t, validated_data, fault) ==
    LET c == ObjectsCreate(CourseBegin(t, fault), "course", [title |-> validated_data.title])
        course == IF Failed(c) THEN c ELSE [c EXCEPT !.course = CreatedId(c, "course")]
    IN CreateAssessments(CreateLessons(course, validated_data.lessons, 1),
                         validated_data.assessments, 1)

\* The body without transaction.atomic: the rows written before the failure
\* stay.
CourseFullCreateNoAtomic(t, validated_data, fault) ==
    CourseCreateBody(t, validated_data, fault)

\* @transaction.atomic def create(self, validated_data)
CourseFullCreate(t, validated_data, fault) ==
    LET tx == CourseCreateBody(t, validated_data, fault)
    IN IF Failed(tx) THEN [tx EXCEPT !.db = t] ELSE tx

\* Validated payloads.
LessonLists == {<<>>, <<[order |-> 1]>>, <<[order |-> 1], [order |-> 2]>>,
                <<[order |-> 1], [order |-> 1]>>}
ChoiceList == <<[text |-> "yes", is_correct |-> TRUE], [text |-> "no", is_correct |-> FALSE]>>
AssessmentLists ==
    {<<>>,
     <<[title |-> "Quiz", questions |-> <<>>]>>,
     <<[title |-> "Quiz", questions |-> <<[order |-> 1, choices |-> <<>>]>>]>>,
     <<[title |-> "Quiz", questions |-> <<[order |-> 1, choices |-> ChoiceList]>>]>>}
CoursePayloads ==
    {[title |-> "Python 101", lessons |-> l, assessments |-> a] :
        l \in LessonLists, a \in AssessmentLists}

NoCourseCall ==
    [op |-> "none", payload |-> <<>>, fault |-> 0, exc |-> NoExc, course |-> NullId,
     pre |-> CourseTables, calls |-> 0]

CourseStart == [tables |-> CourseTables, call |-> NoCourseCall]

InitCourse ==
    /\ db = EmptyDb
    /\ last = NoCall
    /\ proc = ProcIdle
    /\ lp = LpIdle
    /\ answer = AnswerIdle
    /\ checklist_progress = ProgressIdle
    /\ learning = LearningIdle
    /\ reviews = ReviewsIdle
    /\ lms = CourseStart

CourseFullCreateCall(validated_data, fault) ==
    /\ lms.call.calls < MaxCourseCalls
    /\ LET tx == CourseFullCreate(lms.tables, validated_data, fault)
       IN lms' = [tables |-> tx.db,
                  call |-> [op |-> "full_create", payload |-> validated_data,
                            fault |-> fault, exc |-> tx.exc, course |-> tx.course,
                            pre |-> lms.tables, calls |-> lms.call.calls + 1]]
    /\ UNCHANGED <<db, last, proc, lp, answer, checklist_progress, learning, reviews>>

NextCourse ==
    \E validated_data \in CoursePayloads, fault \in 0..MaxInserts :
        CourseFullCreateCall(validated_data, fault)

SpecCourse == InitCourse /\ [][NextCourse]_vars

\* The rows of a table the last call added, in the order of their ids.
NewRows(table) == lms.tables[table] \ lms.call.pre[table]

RECURSIVE SeqById(_)
SeqById(S) ==
    IF S = {} THEN <<>>
    ELSE LET first == CHOOSE r \in S : \A x \in S : r.id <= x.id
         IN <<first>> \o SeqById(S \ {first})

ChildrenOf(table, parent, id) == SeqById({r \in NewRows(table) : r[parent] = id})

CourseRowsOf(t) == <<t.course, t.lesson, t.assessment, t.question, t.choice>>

ChoicesAsGiven(question_row, question_data) ==
    LET rows == ChildrenOf("choice", "question", question_row.id)
    IN /\ Len(rows) = Len(question_data.choices)
       /\ \A k \in DOMAIN rows :
             /\ rows[k].text = question_data.choices[k].text
             /\ rows[k].is_correct = question_data.choices[k].is_correct

QuestionsAsGiven(assessment_row, assessment_data) ==
    LET rows == ChildrenOf("question", "assessment", assessment_row.id)
    IN /\ Len(rows) = Len(assessment_data.questions)
       /\ \A k \in DOMAIN rows :
             /\ rows[k].order = assessment_data.questions[k].order
             /\ ChoicesAsGiven(rows[k], assessment_data.questions[k])

CourseAsGiven(course_id, payload) ==
    LET lessons == ChildrenOf("lesson", "course", course_id)
        assessments == ChildrenOf("assessment", "course", course_id)
    IN /\ NewRows("course") = {[id |-> course_id, title |-> payload.title]}
       /\ Len(lessons) = Len(payload.lessons)
       /\ \A k \in DOMAIN lessons : lessons[k].order = payload.lessons[k].order
       /\ Len(assessments) = Len(payload.assessments)
       /\ \A k \in DOMAIN assessments :
             /\ assessments[k].title = payload.assessments[k].title
             /\ QuestionsAsGiven(assessments[k], payload.assessments[k])
       \* and the call added nothing else
       /\ \A l \in NewRows("lesson") : l.course = course_id
       /\ \A a \in NewRows("assessment") : a.course = course_id
       /\ \A q \in NewRows("question") :
             \E a \in NewRows("assessment") : q.assessment = a.id
       /\ \A c \in NewRows("choice") :
             \E q \in NewRows("question") : c.question = q.id

\* C16: CourseFullCreateSerializer.create is all-or-nothing: when creating
\* the course, a lesson (two lessons with the same order), an assessment, a
\* question or a choice fails, no Course, Lesson, Assessment, Question or
\* Choice row of that call exists afterwards; when it succeeds, the new
\* course has exactly the lessons, assessments, questions and choices of the
\* payload, and the rows of earlier calls are as they were.
C16_FullCreateAllOrNothing ==
    lms.call.op = "full_create" =>
        IF lms.call.exc # NoExc
        THEN CourseRowsOf(lms.tables) = CourseRowsOf(lms.call.pre)
        ELSE /\ \A table \in {"course", "lesson", "assessment", "question", "choice"} :
                   lms.call.pre[table] \subseteq lms.tables[table]
             /\ CourseAsGiven(lms.call.course, lms.call.payload)

\* A second call fails on its second lesson (same order as its first), after
\* its course and first lesson were inserted; the first call's course stays
\* the only one.
C16_Witness ==
    /\ lms.call.op = "full_create"
    /\ lms.call.calls = 2
    /\ lms.call.exc = IntegrityError("lesson")
    /\ lms.call.payload.assessments # <<>>
    /\ Cardinality(lms.call.pre.course) = 1
    /\ lms.call.pre.choice # {}
    /\ Cardinality(lms.tables.course) = 1

(***************************************************************************)
(* Audit logging.  The lms viewsets (course, lesson, assessment,           *)
(* enrollment, review) share one shape: create and update validate, save   *)
(* and then call SystemLog.log_action; destroy logs and then deletes; an   *)
(* exception is caught inside the view and answered with status 400.  The  *)
(* checklist endpoints go through ChecklistViewSet.perform_create,         *)
(* perform_update and perform_destroy.  lms.rows holds the lms rows as     *)
(* [table, id, version], lms.system_log the SystemLog entries in the       *)
(* order they were written.                                                *)
(***************************************************************************)
MaxAuditRequests == 3

LmsTables == {"course", "lesson", "assessment", "enrollment", "review"}
AuditUsers == {1, 2}
AuditStaff == {1}       \* users with is_staff

NoAuditRequest ==
    [op |-> "none", table |-> "", id |-> NullId, user |-> NullId, status |-> 0,
     changed |-> FALSE, pre_log |-> <<>>, count |-> 0]

AuditStart == [rows |-> {}, seq |-> 0, system_log |-> <<>>, req |-> NoAuditRequest]

\* SystemLog.log_action(user, action, table_name, record_id)
log_action(st, user, action, table_name, record_id) ==
    [st EXCEPT !.system_log =
        Append(@, [user |-> user, action |-> action, table_name |-> table_name,
                   record_id |-> record_id])]

AuditRequest(st, op, table, id, user, status, changed) ==
    [st EXCEPT !.req = [op |-> op, table |-> table, id |-> id, user |-> user,
                        status |-> status, changed |-> changed,
                        pre_log |-> lms.system_log, count |-> lms.req.count + 1]]

\* <Model>ViewSet.create: valid is the outcome of serializer.is_valid()
LmsViewCreate(st, user, table, valid) ==
    IF ~valid THEN AuditRequest(st, "CREATE", table, NullId, user, 400, FALSE)
    ELSE LET id == st.seq + 1
             saved == [st EXCEPT !.rows = @ \cup {[table |-> table, id |-> id, version |-> 0]},
                                 !.seq = id]
         IN AuditRequest(log_action(saved, user, "CREATE", table, id),
                         "CREATE", table, id, user, 201, TRUE)

\* <Model>ViewSet.update / partial_update
LmsViewUpdate(st, user, table, id, valid) ==
    IF ~(\E r \in st.rows : r.table = table /\ r.id = id) \/ ~valid
    THEN AuditRequest(st, "UPDATE", table, id, user, 400, FALSE)
    ELSE LET row == CHOOSE r \in st.rows : r.table = table /\ r.id = id
             saved == [st EXCEPT !.rows = (@ \ {row}) \cup {[row EXCEPT !.version = 1 - @]}]
         IN AuditRequest(log_action(saved, user, "UPDATE", table, id),
                         "UPDATE", table, id, user, 200, TRUE)

\* <Model>ViewSet.destroy
LmsViewDestroy(st, user, table, id) ==
    IF ~(\E r \in st.rows : r.table = table /\ r.id = id)
    THEN AuditRequest(st, "DELETE", table, id, user, 400, FALSE)
    ELSE LET row == CHOOSE r \in st.rows : r.table = table /\ r.id = id
             logged == log_action(st, user, "DELETE", table, id)
         IN AuditRequest([logged EXCEPT !.rows = @ \ {row}],
                         "DELETE", table, id, user, 204, TRUE)

\* ChecklistService.delete_checklist: the checklist and, by CASCADE, its
\* sections, their items and its role links.
delete_checklist(d, checklist_id) ==
    IF ~(\E c \in d.checklists : c.id = checklist_id)
    THEN Raise(Begin(d), ValidationError("checklist", {}))
    ELSE [Begin(d) EXCEPT
             !.db.checklists = {c \in @ : c.id # checklist_id},
             !.db.checklist_roles = {l \in @ : l[1] # checklist_id},
             !.db.sections = @ \ SectionsOf(d, checklist_id),
             !.db.listitems = @ \ ItemsOf(d, checklist_id)]

\* IsStaffOrReadOnly on ChecklistViewSet: writes are for staff.
ChecklistMayWrite(user) == user \in AuditStaff

AuditPayloads ==
    {ScalarMin, ScalarFull @@ SectionsKey(SectionList(1, "none")),
     SectionsKey(SectionList(1, "section"))}

InitAudit ==
    /\ db = EmptyDb
    /\ last = NoCall
    /\ proc = ProcIdle
    /\ lp = LpIdle
    /\ answer = AnswerIdle
    /\ checklist_progress = ProgressIdle
    /\ learning = LearningIdle
    /\ reviews = ReviewsIdle
    /\ lms = AuditStart

AuditRequestsLeft == lms.req.count < MaxAuditRequests

LmsCreateRequest(user, table, valid) ==
    /\ AuditRequestsLeft
    /\ lms' = LmsViewCreate(lms, user, table, valid)
    /\ UNCHANGED <<db, last, proc, lp, answer, checklist_progress, learning, reviews>>

LmsUpdateRequest(user, table, id, valid) ==
    /\ AuditRequestsLeft
    /\ lms' = LmsViewUpdate(lms, user, table, id, valid)
    /\ UNCHANGED <<db, last, proc, lp, answer, checklist_progress, learning, reviews>>

LmsDestroyRequest(user, table, id) ==
    /\ AuditRequestsLeft
    /\ lms' = LmsViewDestroy(lms, user, table, id)
    /\ UNCHANGED <<db, last, proc, lp, answer, checklist_progress, learning, reviews>>

\* One request on the checklist endpoint: the permission check, then the
\* service call tx that perform_create / perform_update / perform_destroy
\* makes.
ChecklistRequest(op, user, id, tx) ==
    IF ~ChecklistMayWrite(user)
    THEN /\ db' = db
         /\ lms' = AuditRequest(lms, op, "checklist", id, user, 403, FALSE)
    ELSE /\ db' = tx.db
         /\ lms' = AuditRequest(lms, op, "checklist",
                                IF op = "CREATE" THEN tx.cid ELSE id, user,
                                IF Failed(tx) THEN 400
                                ELSE IF op = "CREATE" THEN 201
                                ELSE IF op = "DELETE" THEN 204 ELSE 200,
                                ~Failed(tx))

ChecklistCreateRequest(user, payload) ==
    /\ AuditRequestsLeft
    /\ ChecklistRequest("CREATE", user, NullId, create_full_checklist(db, payload))
    /\ UNCHANGED <<last, proc, lp, answer, checklist_progress, learning, reviews>>

ChecklistUpdateRequest(user, checklist_id, payload) ==
    /\ AuditRequestsLeft
    /\ \E c \in db.checklists : c.id = checklist_id
    /\ ChecklistRequest("UPDATE", user, checklist_id,
                        update_full_checklist(db, checklist_id, payload))
    /\ UNCHANGED <<last, proc, lp, answer, checklist_progress, learning, reviews>>

ChecklistDestroyRequest(user, checklist_id) ==
    /\ AuditRequestsLeft
    /\ \E c \in db.checklists : c.id = checklist_id
    /\ ChecklistRequest("DELETE", user, checklist_id, delete_checklist(db, checklist_id))
    /\ UNCHANGED <<last, proc, lp, answer, checklist_progress, learning, reviews>>

NextAudit ==
    \/ \E user \in AuditUsers, table \in LmsTables, valid \in BOOLEAN :
          LmsCreateRequest(user, table, valid)
    \/ \E user \in AuditUsers, table \in LmsTables, id \in 1..MaxAuditRequests,
          valid \in BOOLEAN :
          LmsUpdateRequest(user, table, id, valid)
    \/ \E user \in AuditUsers, table \in LmsTables, id \in 1..MaxAuditRequests :
          LmsDestroyRequest(user, table, id)
    \/ \E user \in AuditUsers, payload \in AuditPayloads :
          ChecklistCreateRequest(user, payload)
    \/ \E user \in AuditUsers, checklist_id \in 1..MaxAuditRequests,
          payload \in AuditPayloads :
          ChecklistUpdateRequest(user, checklist_id, payload)
    \/ \E user \in AuditUsers, checklist_id \in 1..MaxAuditRequests :
          ChecklistDestroyRequest(user, checklist_id)

SpecAudit == InitAudit /\ [][NextAudit]_vars

\* C17: every mutating API call (create, update, delete) that succeeds
\* writes exactly one SystemLog entry, with the acting user, the matching
\* action kind, the affected table and the record id; a mutating call that
\* fails and changes nothing writes none.  This holds for the course,
\* lesson, assessment, enrollment and review endpoints and for the
\* checklist endpoints.
C17_OneAuditEntry ==
    lms.req.op # "none" =>
        IF lms.req.changed
        THEN lms.system_log =
                Append(lms.req.pre_log,
                       [user |-> lms.req.user, action |-> lms.req.op,
                        table_name |-> lms.req.table, record_id |-> lms.req.id])
        ELSE lms.system_log = lms.req.pre_log

(***************************************************************************)
(* The status of ChecklistProgress rows under create_progress,             *)
(* update_progress_status and bulk_update_progress_status, and the         *)
(* per-status counts of get_checklist_stats.  checklist_progress.pre is    *)
(* the table before the last call and checklist_progress.arg the status    *)
(* the last call was given.                                                *)
(***************************************************************************)
MaxStatusRows == 2

\* The statuses a caller passes: the four choices and one that is none of them.
StatusInputs == ValidStatuses \cup {"done"}

\* @transaction.atomic bulk_update_progress_status(progress_ids, status)
bulk_update_progress_status(st, progress_ids, status) ==
    IF status \notin ValidStatuses
    THEN [st EXCEPT !.stats = [NoStats EXCEPT !.op = "bulk_update",
                                              !.exc = ValidationError("status", {})]]
    ELSE [st EXCEPT !.rows = {IF r.id \in progress_ids THEN [r EXCEPT !.status = status]
                              ELSE r : r \in @},
                    !.stats = [NoStats EXCEPT !.op = "bulk_update"]]

\* ChecklistService.get_checklist_stats(checklist_id)
get_checklist_stats(st, d, checklist_id) ==
    IF ~\E c \in d.checklists : c.id = checklist_id
    THEN [op |-> "checklist_stats", checklist |-> checklist_id,
          exc |-> ValidationError("checklist", {})]
    ELSE LET progress_records == {r \in st.rows : r.checklist = checklist_id}
             CountOf(status) == Cardinality({r \in progress_records : r.status = status})
         IN [op |-> "checklist_stats", checklist |-> checklist_id, exc |-> NoExc,
             total_sections |-> Cardinality(SectionsOf(d, checklist_id)),
             total_items |-> Cardinality(ItemsOf(d, checklist_id)),
             total_progress_records |-> Cardinality(progress_records),
             progress_by_status |->
                 [pending |-> CountOf("pending"), in_progress |-> CountOf("in_progress"),
                  completed |-> CountOf("completed"), blocked |-> CountOf("blocked")],
             roles_count |-> Cardinality(RolesOf(d, checklist_id))]

StatusStart == [rows |-> {}, seq |-> 0, stats |-> NoStats, pre |-> {}, arg |-> "pending"]

StatusCall(st, status) == [st EXCEPT !.pre = checklist_progress.rows, !.arg = status]

InitStatus ==
    /\ db = create_full_checklist(EmptyDb, ScalarMin).db
    /\ last = NoCall
    /\ proc = ProcIdle
    /\ lp = LpIdle
    /\ answer = AnswerIdle
    /\ checklist_progress = StatusStart
    /\ learning = LearningIdle
    /\ reviews = ReviewsIdle
    /\ lms = LmsIdle

StatusCreateProgress(user, checklist_id, status) ==
    /\ checklist_progress.seq < MaxStatusRows
    /\ checklist_progress' =
          StatusCall(create_progress(checklist_progress, db, user, checklist_id, NullId, status),
                     status)
    /\ UNCHANGED <<db, last, proc, lp, answer, learning, reviews, lms>>

StatusUpdateProgressStatus(progress_id, status) ==
    /\ checklist_progress' =
          StatusCall(update_progress_status(checklist_progress, progress_id, status), status)
    /\ UNCHANGED <<db, last, proc, lp, answer, learning, reviews, lms>>

StatusBulkUpdate(progress_ids, status) ==
    /\ checklist_progress' =
          StatusCall(bulk_update_progress_status(checklist_progress, progress_ids, status),
                     status)
    /\ UNCHANGED <<db, last, proc, lp, answer, learning, reviews, lms>>

StatusGetChecklistStats(checklist_id) ==
    /\ checklist_progress' =
          [StatusCall(checklist_progress, checklist_progress.arg) EXCEPT
              !.stats = get_checklist_stats(checklist_progress, db, checklist_id)]
    /\ UNCHANGED <<db, last, proc, lp, answer, learning, reviews, lms>>

NextStatus ==
    \/ \E user \in Users, checklist_id \in 1..2, status \in StatusInputs :
          StatusCreateProgress(user, checklist_id, status)
    \/ \E progress_id \in 1..MaxStatusRows + 1, status \in StatusInputs :
          StatusUpdateProgressStatus(progress_id, status)
    \/ \E progress_ids \in SUBSET (1..MaxStatusRows + 1), status \in StatusInputs :
          StatusBulkUpdate(progress_ids, status)
    \/ \E checklist_id \in 1..2 : StatusGetChecklistStats(checklist_id)

SpecStatus == InitStatus /\ [][NextStatus]_vars

\* The status changes the last call made: <<status before, status after>>.
StatusChanges ==
    {<<p.status, r.status>> : <<p, r>> \in
        {x \in checklist_progress.pre \X checklist_progress.rows :
            x[1].id = x[2].id /\ x[1].status # x[2].status}}

\* C21: under update_progress_status and bulk_update_progress_status the
\* status of a record moves along the state machine: 'blocked' is entered
\* only from 'in_progress' and left only to 'in_progress', and 'completed'
\* is entered only from 'in_progress'.
C21_StatusStateMachine ==
    checklist_progress.stats.op \in {"update", "bulk_update"} =>
        \A c \in StatusChanges :
            /\ c[2] = "blocked" => c[1] = "in_progress"
            /\ c[1] = "blocked" => c[2] = "in_progress"
            /\ c[2] = "completed" => c[1] = "in_progress"

\* C25: every ChecklistProgress row has a status in {pending, in_progress,
\* completed, blocked}; a create_progress, update_progress_status or
\* bulk_update_progress_status call with any other status fails and changes
\* no row; so the four per-status counts of get_checklist_stats add up to
\* total_progress_records.
C25_StatusInChoices ==
    /\ \A r \in checklist_progress.rows : r.status \in ValidStatuses
    /\ (/\ checklist_progress.stats.op \in {"create", "update", "bulk_update"}
        /\ checklist_progress.arg \notin ValidStatuses) =>
          /\ checklist_progress.stats.exc # NoExc
          /\ checklist_progress.rows = checklist_progress.pre
    /\ (checklist_progress.stats.op = "checklist_stats"
        /\ checklist_progress.stats.exc = NoExc) =>
          checklist_progress.stats.total_progress_records =
              checklist_progress.stats.progress_by_status.pending
              + checklist_progress.stats.progress_by_status.in_progress
              + checklist_progress.stats.progress_by_status.completed
              + checklist_progress.stats.progress_by_status.blocked

(***************************************************************************)
(* The same update_full_checklist payload submitted twice in a row.        *)
(* UpdateAgain sends the payload of the last update call to the same       *)
(* checklist once more; last.first is the exception of the first call.     *)
(***************************************************************************)
MaxRepeatIds == 6       \* cap on the Sections / ListItem id sequences

DescribedSections ==
    <<[name |-> "Audio", description |-> "sd", order |-> 2,
       items |-> <<[name |-> "mic", description |-> "id"], [name |-> "levels"]>>],
      [name |-> "Video"]>>

RepeatCreatePayloads ==
    {ScalarFull @@ Roles(<<1>>) @@ SectionsKey(SectionList(1, "none"))}

RepeatPayloads ==
    {ScalarFull @@ TypeByName(<<" ", "X">>) @@ Roles(<<1, 2>>) @@ SectionsKey(DescribedSections),
     TypeByName(<<"Y", " ">>) @@ SectionsKey(SectionList(2, "none")),
     Roles(<<2>>), NoKeys,
     Roles(<<3>>) @@ SectionsKey(SectionList(1, "none")),
     SectionsKey(SectionList(1, "item"))}

RepeatIdsLeft(p) ==
    /\ db.seq.sections + Len(PayloadSections(p)) <= MaxRepeatIds
    /\ db.seq.listitems + PayloadItemCount(p) <= MaxRepeatIds

RepeatCreate(payload) ==
    /\ db.seq.checklists < MaxChecklists
    /\ RepeatIdsLeft(payload)
    /\ LET tx == create_full_checklist(db, payload)
       IN /\ db' = tx.db
          /\ last' = [op |-> "create", cid |-> tx.cid, payload |-> payload,
                      exc |-> tx.exc, pre |-> db, work |-> tx.work, first |-> NoExc]
    /\ UNCHANGED <<proc, lp, answer, checklist_progress, learning, reviews, lms>>

RepeatUpdate(checklist_id, payload) ==
    /\ RepeatIdsLeft(payload)
    /\ LET tx == update_full_checklist(db, checklist_id, payload)
       IN /\ db' = tx.db
          /\ last' = [op |-> "update", cid |-> checklist_id, payload |-> payload,
                      exc |-> tx.exc, pre |-> db, work |-> tx.work, first |-> NoExc]
    /\ UNCHANGED <<proc, lp, answer, checklist_progress, learning, reviews, lms>>

UpdateAgain ==
    /\ last.op = "update"
    /\ RepeatIdsLeft(last.payload)
    /\ LET tx == update_full_checklist(db, last.cid, last.payload)
       IN /\ db' = tx.db
          /\ last' = [op |-> "update_again", cid |-> last.cid, payload |-> last.payload,
                      exc |-> tx.exc, pre |-> db, work |-> tx.work, first |-> last.exc]
    /\ UNCHANGED <<proc, lp, answer, checklist_progress, learning, reviews, lms>>

NextRepeat ==
    \/ \E payload \in RepeatCreatePayloads : RepeatCreate(payload)
    \/ \E checklist_id \in 1..MaxChecklists, payload \in RepeatPayloads :
          RepeatUpdate(checklist_id, payload)
    \/ UpdateAgain

SpecRepeat == Init /\ [][NextRepeat]_vars

\* What a checklist is up to the surrogate ids of its sections and items:
\* its row (scalar fields and checklist type), its role set, and its
\* sections in creation order, each with its items in creation order.
ItemView(i) == [name |-> i.name, description |-> i.description]
SectionView(d, s) ==
    [name |-> s.name, description |-> s.description, order |-> s.order,
     items |-> [k \in DOMAIN SeqById(ItemsOfSection(d, s.id)) |->
                   ItemView(SeqById(ItemsOfSection(d, s.id))[k])]]
ChecklistView(d, cid) ==
    [row |-> ChecklistRow(d, cid),
     roles |-> RolesOf(d, cid),
     sections |-> [k \in DOMAIN SeqById(SectionsOf(d, cid)) |->
                      SectionView(d, SeqById(SectionsOf(d, cid))[k])]]

\* C22: submitting the same update_full_checklist payload twice in a row is
\* idempotent up to surrogate ids: the second call ends as the first did,
\* and after it the checklist's scalar fields, checklist type, role set and
\* its sections with their names, descriptions, orders and items are what
\* they were after the first call; a checklist_type given by name is created
\* by the first call and reused by the second, so the ChecklistType table
\* does not change.
C22_RepeatedUpdateIdempotent ==
    last.op = "update_again" =>
        /\ last.exc = last.first
        /\ db.ctypes = last.pre.ctypes
        /\ db.checklists = last.pre.checklists
        /\ db.checklist_roles = last.pre.checklist_roles
        /\ \A c \in db.checklists : ChecklistView(db, c.id) = ChecklistView(last.pre, c.id)

C22_Witness ==
    /\ last.op = "update_again"
    /\ last.exc = NoExc
    /\ HasKey(last.payload, "sections") /\ HasKey(last.payload, "roles")
    /\ TypeGivenByName(last.payload)
    /\ last.pre.sections # {}
    /\ db.sections \cap last.pre.sections = {}
    /\ \E t \in db.ctypes : t.name = <<"X">>

(***************************************************************************)
(* update_full_checklist and the ChecklistProgress rows.  The sections of  *)
(* the checklist are deleted through the ORM, which follows the CASCADE    *)
(* foreign keys Sections <- ListItem <- ChecklistProgress.items inside the *)
(* same transaction.  checklist_progress.pre is the table before the last  *)
(* call.                                                                   *)
(***************************************************************************)
MaxCascadeRows == 3
MaxCascadeIds == 4      \* cap on the Sections / ListItem id sequences

\* ChecklistProgress.items with on_delete that keeps the rows.
ProgressItemsKept(rows, listitems) == rows

\* ChecklistProgress.items, on_delete=CASCADE, null=True: the rows whose
\* list item is gone go with it.
ProgressItemsCascade(rows, listitems) ==
    {r \in rows : r.items = NullId \/ \E i \in listitems : i.id = r.items}

CascadePayloads ==
    {SectionsKey(SectionList(1, "none")), SectionsKey(<<>>), Roles(<<2>>),
     SectionsKey(SectionList(1, "item"))}

CascadeIdsLeft(p) ==
    /\ db.seq.sections + Len(PayloadSections(p)) <= MaxCascadeIds
    /\ db.seq.listitems + PayloadItemCount(p) <= MaxCascadeIds

InitCascade ==
    /\ db = create_full_checklist(
                create_full_checklist(EmptyDb,
                                      ScalarFull @@ SectionsKey(SectionList(1, "none"))).db,
                ScalarMin).db
    /\ last = NoCall
    /\ proc = ProcIdle
    /\ lp = LpIdle
    /\ answer = AnswerIdle
    /\ checklist_progress = StatusStart
    /\ learning = LearningIdle
    /\ reviews = ReviewsIdle
    /\ lms = LmsIdle

\* A client records progress on a list item under the checklist the item
\* belongs to, and checklist-level progress (no item) under checklist 1.
CascadeCreateProgress(user, checklist_id, list_item_id) ==
    /\ checklist_progress.seq < MaxCascadeRows
    /\ IF list_item_id = NullId THEN checklist_id = 1
       ELSE \E i \in ItemsOf(db, checklist_id) : i.id = list_item_id
    /\ checklist_progress' =
          StatusCall(create_progress(checklist_progress, db, user, checklist_id,
                                     list_item_id, "pending"), "pending")
    /\ last' = NoCall
    /\ UNCHANGED <<db, proc, lp, answer, learning, reviews, lms>>

CascadeUpdate(checklist_id, payload) ==
    /\ CascadeIdsLeft(payload)
    /\ LET tx == update_full_checklist(db, checklist_id, payload)
       IN /\ db' = tx.db
          /\ last' = [op |-> "update", cid |-> checklist_id, payload |-> payload,
                      exc |-> tx.exc, pre |-> db, work |-> tx.work]
          /\ checklist_progress' =
                [checklist_progress EXCEPT
                    !.rows = ProgressItemsCascade(@, tx.db.listitems),
                    !.pre = checklist_progress.rows]
    /\ UNCHANGED <<proc, lp, answer, learning, reviews, lms>>

NextCascade ==
    \/ \E user \in Users, checklist_id \in 1..MaxChecklists,
          list_item_id \in 0..MaxCascadeIds :
          CascadeCreateProgress(user, checklist_id, list_item_id)
    \/ \E checklist_id \in 1..MaxChecklists, payload \in CascadePayloads :
          CascadeUpdate(checklist_id, payload)

SpecCascade == InitCascade /\ [][NextCascade]_vars

\* The ids of the list items checklist cid had before the last call.
ReplacedItems == {i.id : i \in ItemsOf(last.pre, last.cid)}

\* C23: a successful update_full_checklist call whose payload has a
\* 'sections' key deletes every ChecklistProgress row (of every user) that
\* referenced a list item of the replaced sections, also when the payload
\* lists items with the same names, and keeps every other row, the
\* checklist-level rows with a null item among them; a call without the
\* 'sections' key deletes no ChecklistProgress row.
C23_ProgressFollowsItems ==
    CallOk("update") =>
        IF HasKey(last.payload, "sections")
        THEN checklist_progress.rows =
                {r \in checklist_progress.pre : r.items \notin ReplacedItems}
        ELSE checklist_progress.rows = checklist_progress.pre

C23_Witness ==
    /\ CallOk("update")
    /\ last.payload = SectionsKey(SectionList(1, "none"))
    /\ \E r \in checklist_progress.pre : r.items \in ReplacedItems /\ r.user = 1
    /\ \E r \in checklist_progress.pre : r.items \in ReplacedItems /\ r.user = 2
    /\ \E r \in checklist_progress.rows : r.items = NullId /\ r.checklist = last.cid
    /\ \A i \in ItemsOf(last.pre, last.cid) :
          \E j \in ItemsOf(db, last.cid) : j.name = i.name /\ j.id # i.id

\* C24: create_full_checklist and update_full_checklist accept the 'roles'
\* list whenever every id in it refers to an existing Role, also when the
\* list repeats an id: the 'Roles not found' error is raised only when at
\* least one id is really missing, and after a successful call with a
\* 'roles' key the checklist's role set is the set of distinct ids given.
C24_RepeatedRoleIdsAccepted ==
    last.op \in {"create", "update"} =>
        /\ last.exc.kind = "ValidationError" /\ last.exc.field = "roles" =>
              MissingRoles(last.payload) # {}
        /\ (~CallFailed /\ HasKey(last.payload, "roles")) =>
              RolesOf(db, last.cid) = Range(last.payload.roles)

\* C26: after any sequence of enrollments, lesson additions and
\* complete_lesson calls, an Enrollment has completed_at set if and only if
\* its overall_progress is 100.
C26_CompletedAtIffFull ==
    \A e \in learning.enrollments : (e.completed_at # NoTime) <=> (e.overall_progress = 100)

(***************************************************************************)
(* Role creation.  RoleViewSet.perform_create saves the serializer, which  *)
(* inserts a Role row, and then calls RoleService.create_role with the     *)
(* saved role's name, which inserts a Role row again.  Role.name is        *)
(* unique and Role.save() upper-cases it.  lms.roles is the Role table as  *)
(* [id, name]; lms.req the last request.  The project settings are not     *)
(* part of the sources, so a request runs either in autocommit mode or     *)
(* wrapped in one transaction (ATOMIC_REQUESTS).                           *)
(***************************************************************************)
MaxRoleRequests == 3

RoleNames == {"", "editor", "Editor", "host"}

\* str.strip().upper() on the names above
UpperName(n) ==
    CASE n = "" -> ""
      [] n \in {"editor", "Editor", "EDITOR"} -> "EDITOR"
      [] n \in {"host", "HOST"} -> "HOST"

NoRoleRequest ==
    [op |-> "none", user |-> NullId, name |-> "", status |-> 0, pre |-> {}, count |-> 0]

RolesStart == [roles |-> {}, seq |-> 0, req |-> NoRoleRequest]

\* Role.objects.create(name=...): Role.save() upper-cases the name; the
\* INSERT fails when the name is taken.
RoleObjectsCreate(st, name) ==
    IF \E r \in st.roles : r.name = UpperName(name)
    THEN [st |-> st, exc |-> IntegrityError("name")]
    ELSE [st |-> [st EXCEPT !.roles = @ \cup {[id |-> st.seq + 1, name |-> UpperName(name)]},
                            !.seq = @ + 1],
          exc |-> NoExc]

\* RoleService.create_role(user, name, description)
create_role(st, user, name) == RoleObjectsCreate(st, name)

\* RoleCreateUpdateSerializer.validate_name on a create
RoleNameValid(st, name) ==
    /\ UpperName(name) # ""
    /\ ~\E r \in st.roles : UpperName(r.name) = UpperName(name)

\* perform_create: serializer.save(), then RoleService.create_role
perform_create(st, user, name) ==
    LET saved == RoleObjectsCreate(st, UpperName(name))
    IN IF saved.exc # NoExc THEN saved
       ELSE create_role(saved.st, user, UpperName(name))

RoleRequest(st, user, name, status) ==
    [st EXCEPT !.req = [op |-> "role_create", user |-> user, name |-> name,
                        status |-> status, pre |-> lms.roles,
                        count |-> lms.req.count + 1]]

\* POST on RoleViewSet
RoleViewCreate(st, user, name, atomic_requests) ==
    IF ~ChecklistMayWrite(user) THEN RoleRequest(st, user, name, 403)
    ELSE IF ~RoleNameValid(st, name) THEN RoleRequest(st, user, name, 400)
    ELSE LET done == perform_create(st, user, name)
         IN IF done.exc = NoExc THEN RoleRequest(done.st, user, name, 201)
            ELSE RoleRequest(IF atomic_requests THEN [done.st EXCEPT !.roles = st.roles]
                             ELSE done.st,
                             user, name, 500)

InitRoles ==
    /\ db = EmptyDb
    /\ last = NoCall
    /\ proc = ProcIdle
    /\ lp = LpIdle
    /\ answer = AnswerIdle
    /\ checklist_progress = ProgressIdle
    /\ learning = LearningIdle
    /\ reviews = ReviewsIdle
    /\ lms = RolesStart

RoleCreateRequest(user, name, atomic_requests) ==
    /\ lms.req.count < MaxRoleRequests
    /\ lms' = RoleViewCreate(lms, user, name, atomic_requests)
    /\ UNCHANGED <<db, last, proc, lp, answer, checklist_progress, learning, reviews>>

\* RoleService.create_role called on its own (management code, shell).
RoleServiceCreate(user, name) ==
    /\ lms.req.count < MaxRoleRequests
    /\ name # ""
    /\ lms' = [create_role(lms, user, name).st EXCEPT
                  !.req = [NoRoleRequest EXCEPT !.count = lms.req.count + 1]]
    /\ UNCHANGED <<db, last, proc, lp, answer, checklist_progress, learning, reviews>>

NextRoles ==
    \/ \E user \in AuditUsers, name \in RoleNames, atomic_requests \in BOOLEAN :
          RoleCreateRequest(user, name, atomic_requests)
    \/ \E user \in AuditUsers, name \in RoleNames : RoleServiceCreate(user, name)

SpecRoles == InitRoles /\ [][NextRoles]_vars

\* C27: a role create request with a valid, not yet used name succeeds and
\* adds exactly one Role row, with the upper-cased name; a role create
\* request that ends in an error adds no Role row.
C27_RoleCreatedOnce ==
    lms.req.op = "role_create" =>
        /\ (/\ ChecklistMayWrite(lms.req.user)
            /\ UpperName(lms.req.name) # ""
            /\ ~\E r \in lms.req.pre : r.name = UpperName(lms.req.name)) =>
              /\ lms.req.status = 201
              /\ \E r \in lms.roles \ lms.req.pre :
                    /\ r.name = UpperName(lms.req.name)
                    /\ lms.roles = lms.req.pre \cup {r}
        /\ lms.req.status >= 400 => lms.roles = lms.req.pre

(***************************************************************************)
(* CourseViewSet.full_create: the view is @transaction.atomic and catches  *)
(* every exception inside itself, answering 400.  The serializer's create  *)
(* is a nested atomic block (a savepoint).  After serializer.save() the    *)
(* view sanitizes the request data, writes an ActivityLog row, serializes  *)
(* the data with json.dumps and writes a SystemLog row.  late names the    *)
(* step after the save that raises: a database error inside Model.save()   *)
(* marks the transaction for rollback, any other exception does not, and   *)
(* the view's block then exits normally and commits.                       *)
(***************************************************************************)
MaxViewCalls == 2

LateFaults == {"none", "sanitize", "activity_log", "json_dumps", "system_log"}

ViewPayloads ==
    {[title |-> "Python 101", lessons |-> <<[order |-> 1]>>, assessments |-> <<>>],
     [title |-> "Python 101", lessons |-> <<[order |-> 1], [order |-> 1]>>,
      assessments |-> <<[title |-> "Quiz", questions |-> <<[order |-> 1, choices |-> ChoiceList]>>]>>],
     [title |-> "Python 101", lessons |-> <<>>,
      assessments |-> <<[title |-> "Quiz", questions |-> <<[order |-> 1, choices |-> ChoiceList]>>]>>]}

NoViewCall ==
    [op |-> "none", payload |-> <<>>, fault |-> 0, late |-> "none", status |-> 0,
     pre |-> CourseTables, calls |-> 0]

ViewStart == [tables |-> CourseTables, activity_log |-> 0, system_log |-> 0,
              call |-> NoViewCall]

\* The steps of the view after serializer.save(), in order; the result is
\* the log rows written, whether an exception was raised, and whether the
\* transaction was marked for rollback.
AfterSave(late) ==
    CASE late = "sanitize" ->
            [activity_log |-> 0, system_log |-> 0, raised |-> TRUE, needs_rollback |-> FALSE]
      [] late = "activity_log" ->
            [activity_log |-> 0, system_log |-> 0, raised |-> TRUE, needs_rollback |-> TRUE]
      [] late = "json_dumps" ->
            [activity_log |-> 1, system_log |-> 0, raised |-> TRUE, needs_rollback |-> FALSE]
      [] late = "system_log" ->
            [activity_log |-> 1, system_log |-> 0, raised |-> TRUE, needs_rollback |-> TRUE]
      [] late = "none" ->
            [activity_log |-> 1, system_log |-> 1, raised |-> FALSE, needs_rollback |-> FALSE]

\* @transaction.atomic def full_create(self, request)
full_create(st, validated_data, fault, late) ==
    LET tx == CourseFullCreate(st.tables, validated_data, fault)
        rest == AfterSave(late)
        called(status) ==
            [op |-> "view_full_create", payload |-> validated_data, fault |-> fault,
             late |-> late, status |-> status, pre |-> lms.tables,
             calls |-> lms.call.calls + 1]
    IN IF Failed(tx) THEN [st EXCEPT !.call = called(400)]
       ELSE IF rest.needs_rollback THEN [st EXCEPT !.call = called(400)]
       ELSE [st EXCEPT !.tables = tx.db,
                       !.activity_log = @ + rest.activity_log,
                       !.system_log = @ + rest.system_log,
                       !.call = called(IF rest.raised THEN 400 ELSE 201)]

InitView ==
    /\ db = EmptyDb
    /\ last = NoCall
    /\ proc = ProcIdle
    /\ lp = LpIdle
    /\ answer = AnswerIdle
    /\ checklist_progress = ProgressIdle
    /\ learning = LearningIdle
    /\ reviews = ReviewsIdle
    /\ lms = ViewStart

FullCreateRequest(validated_data, fault, late) ==
    /\ lms.call.calls < MaxViewCalls
    /\ lms' = full_create(lms, validated_data, fault, late)
    /\ UNCHANGED <<db, last, proc, lp, answer, checklist_progress, learning, reviews>>

NextView ==
    \E validated_data \in ViewPayloads, fault \in 0..MaxInserts, late \in LateFaults :
        FullCreateRequest(validated_data, fault, late)

SpecView == InitView /\ [][NextView]_vars

\* C28: whenever the course full-create endpoint answers with an error
\* response, no Course, Lesson, Assessment, Question or Choice row of that
\* request is persisted, also when the failure happens after the serializer
\* saved the course (writing the ActivityLog or SystemLog entry, or
\* serializing the request data for the log).
C28_ErrorPersistsNothing ==
    (lms.call.op = "view_full_create" /\ lms.call.status >= 400) =>
        CourseRowsOf(lms.tables) = CourseRowsOf(lms.call.pre)

(***************************************************************************)
(* update_full_checklist with a checklist type given by name, next to      *)
(* other requests that create and delete checklist types.  The store is    *)
(* the one of the concurrent create requests above: a request reads the    *)
(* committed rows and its own.  The other requests are single statements   *)
(* that commit at once.  proc is the update request: its position, the     *)
(* type it resolved (ct), the type assigned to checklist.checklist_type    *)
(* (assigned, NullId while none was), and the path it took.                *)
(***************************************************************************)
MaxTypeIds == 4         \* cap on the ChecklistType id sequence

UpdatedChecklist == 1
UpdateTypeNames == {<<" ", "X">>, <<"X">>, <<"Y">>}

UpdateRaceIdle ==
    [pc |-> "start", payload |-> NoKeys, ct |-> NullId, assigned |-> NullId,
     path |-> "none", exc |-> NoExc, wtypes |-> {}]

UpdateTypeName == Strip(proc.payload.checklist_type.name)

\* The committed ChecklistType rows and the request's own.
UpdateVisible == db.ctypes \cup proc.wtypes

InitUpdateRace ==
    /\ db = create_full_checklist(EmptyDb, ScalarFull @@ TypeByName(<<"Y">>)).db
    /\ last = NoCall
    /\ proc \in {[UpdateRaceIdle EXCEPT !.payload = TypeByName(n)] : n \in UpdateTypeNames}
    /\ lp = LpIdle
    /\ answer = AnswerIdle
    /\ checklist_progress = ProgressIdle
    /\ learning = LearningIdle
    /\ reviews = ReviewsIdle
    /\ lms = LmsIdle

\* get_or_create: the first read.
UpdateGetType ==
    /\ proc.pc = "start"
    /\ proc' = IF \E t \in UpdateVisible : t.name = UpdateTypeName
               THEN [proc EXCEPT !.pc = "save", !.path = "found",
                                 !.ct = (CHOOSE t \in UpdateVisible : t.name = UpdateTypeName).id,
                                 !.assigned = (CHOOSE t \in UpdateVisible :
                                                  t.name = UpdateTypeName).id]
               ELSE [proc EXCEPT !.pc = "insert"]
    /\ UNCHANGED <<db, last, lp, answer, checklist_progress, learning, reviews, lms>>

\* get_or_create: the INSERT in its savepoint.
UpdateInsertType ==
    /\ proc.pc = "insert"
    /\ IF \E t \in db.ctypes : t.name = UpdateTypeName
       THEN /\ proc' = [proc EXCEPT !.pc = "reread"]
            /\ db' = db
       ELSE LET id == db.seq.ctypes + 1
                row == [id |-> id, name |-> UpdateTypeName,
                        description |-> Get(proc.payload.checklist_type, "description", "")]
            IN /\ proc' = [proc EXCEPT !.pc = "save", !.path = "created", !.ct = id,
                                       !.assigned = id, !.wtypes = {row}]
               /\ db' = [db EXCEPT !.seq.ctypes = id]
    /\ UNCHANGED <<last, lp, answer, checklist_progress, learning, reviews, lms>>

\* get_or_create after the IntegrityError of its INSERT: it reads the row
\* again and returns it, or lets the IntegrityError out.
UpdateRereadType ==
    /\ proc.pc = "reread"
    /\ proc' = IF \E t \in UpdateVisible : t.name = UpdateTypeName
               THEN [proc EXCEPT !.pc = "save", !.path = "reread",
                                 !.ct = (CHOOSE t \in UpdateVisible : t.name = UpdateTypeName).id,
                                 !.assigned = (CHOOSE t \in UpdateVisible :
                                                  t.name = UpdateTypeName).id]
               ELSE [proc EXCEPT !.pc = "fallback"]
    /\ UNCHANGED <<db, last, lp, answer, checklist_progress, learning, reviews, lms>>

\* except IntegrityError: ct = ChecklistType.objects.filter(name=...).first();
\* a ValidationError when there is none.  checklist.checklist_type is not
\* assigned in this branch.
UpdateFallback ==
    /\ proc.pc = "fallback"
    /\ proc' = IF \E t \in UpdateVisible : t.name = UpdateTypeName
               THEN [proc EXCEPT !.pc = "save", !.path = "fallback",
                                 !.ct = (CHOOSE t \in UpdateVisible : t.name = UpdateTypeName).id]
               ELSE [proc EXCEPT !.pc = "failed",
                                 !.exc = ValidationError("checklist_type", {})]
    /\ UNCHANGED <<db, last, lp, answer, checklist_progress, learning, reviews, lms>>

\* checklist.save() and the commit as the function returns.  The foreign
\* key checklist_type must refer to a row that exists.
UpdateSaveAndCommit ==
    /\ proc.pc = "save"
    /\ LET seen == [db EXCEPT !.ctypes = UpdateVisible]
           loaded == UpdateLoad(Begin(seen), UpdatedChecklist)
           tx == UpdateSave(IF proc.assigned = NullId THEN loaded
                            ELSE [loaded EXCEPT !.obj.checklist_type = proc.assigned])
       IN IF Failed(tx) \/ ~\E t \in seen.ctypes : t.id = tx.obj.checklist_type
          THEN /\ proc' = [proc EXCEPT !.pc = "failed", !.wtypes = {},
                                       !.exc = IF Failed(tx) THEN tx.exc
                                               ELSE IntegrityError("checklist_type")]
               /\ db' = db
          ELSE /\ proc' = [proc EXCEPT !.pc = "done", !.wtypes = {}]
               /\ db' = tx.db
    /\ UNCHANGED <<last, lp, answer, checklist_progress, learning, reviews, lms>>

\* Another request: ChecklistTypeService.create_checklist_type(user, name).
\* It waits while the update holds an uncommitted row of that name.
OtherCreateType(name) ==
    /\ db.seq.ctypes < MaxTypeIds
    /\ ~\E t \in proc.wtypes : t.name = name
    /\ ~\E t \in db.ctypes : t.name = name
    /\ db' = [db EXCEPT !.ctypes = @ \cup {[id |-> db.seq.ctypes + 1, name |-> name,
                                            description |-> ""]},
                        !.seq.ctypes = @ + 1]
    /\ UNCHANGED <<last, proc, lp, answer, checklist_progress, learning, reviews, lms>>

\* Another request: ChecklistTypeService.delete_checklist_type(id), of a
\* type no checklist refers to.
OtherDeleteType(checklist_type_id) ==
    /\ \E t \in db.ctypes : t.id = checklist_type_id
    /\ ~\E c \in db.checklists : c.checklist_type = checklist_type_id
    /\ db' = [db EXCEPT !.ctypes = {t \in @ : t.id # checklist_type_id}]
    /\ UNCHANGED <<last, proc, lp, answer, checklist_progress, learning, reviews, lms>>

NextUpdateRace ==
    \/ UpdateGetType
    \/ UpdateInsertType
    \/ UpdateRereadType
    \/ UpdateFallback
    \/ UpdateSaveAndCommit
    \/ \E name \in {<<"X">>, <<"Z">>} : OtherCreateType(name)
    \/ \E checklist_type_id \in 1..MaxTypeIds : OtherDeleteType(checklist_type_id)

SpecUpdateRace == InitUpdateRace /\ [][NextUpdateRace]_vars

\* C29: after update_full_checklist succeeds with checklist_type {name: X}
\* and no id, the checklist's checklist_type is the ChecklistType whose name
\* is X stripped of surrounding whitespace, whether the type was found or
\* created directly or a concurrent request created it first and the update
\* took its uniqueness-failure fallback path.
C29_TypeIsTheNamedOne ==
    proc.pc = "done" =>
        \E t \in db.ctypes :
            /\ t.name = UpdateTypeName
            /\ ChecklistRow(db, UpdatedChecklist).checklist_type = t.id

(***************************************************************************)
(* SectionService.reorder_sections(checklist_id, section_orders).          *)
(* last.payload is the list of <<section id, new order>> pairs of the      *)
(* last call and last.pre the store before it.                             *)
(***************************************************************************)
MaxReorderLen == 2      \* pairs in one section_orders list

ReorderSectionIds == 1..4       \* ids 1, 2 (checklist 1), 3 (checklist 2), 4 (no row)
ReorderOrders == {-1, 0, 3}

\* Sections.objects.get(id=section_id) without the checklist filter
SectionsGetAnyChecklist(d, section_id, checklist_id) ==
    {s \in d.sections : s.id = section_id}

\* Sections.objects.get(id=section_id, checklist=checklist): the matching
\* rows (one or none; none is DoesNotExist)
SectionsGet(d, section_id, checklist_id) ==
    {s \in d.sections : s.id = section_id /\ s.checklist = checklist_id}

\* The loop body from pair k on.  PositiveIntegerField: the row cannot be
\* written with a negative order.
RECURSIVE ReorderFrom(_, _, _)
ReorderFrom(tx, section_orders, k) ==
    IF Failed(tx) \/ k > Len(section_orders) THEN tx
    ELSE LET section_id == section_orders[k][1]
             order == section_orders[k][2]
             got == SectionsGet(tx.db, section_id, tx.cid)
         IN IF got = {} THEN ReorderFrom(tx, section_orders, k + 1)
            ELSE IF order < 0 THEN Raise(tx, IntegrityError("sections"))
            ELSE LET section == CHOOSE s \in got : TRUE
                 IN ReorderFrom([tx EXCEPT !.db.sections =
                                    (@ \ {section}) \cup {[section EXCEPT !.order = order]}],
                                section_orders, k + 1)

reorder_sections(d, checklist_id, section_orders) ==
    IF ~\E c \in d.checklists : c.id = checklist_id
    THEN Raise(Begin(d), ValidationError("checklist", {}))
    ELSE Atomic(d, ReorderFrom([Begin(d) EXCEPT !.cid = checklist_id], section_orders, 1))

SectionOrderLists ==
    UNION {[1..n -> ReorderSectionIds \X ReorderOrders] : n \in 0..MaxReorderLen}

\* Stores with two sections (ids 1, 2) in checklist 1 and one (id 3) in
\* checklist 2.
ReorderStores ==
    {create_full_checklist(
         create_full_checklist(EmptyDb, ScalarFull @@ SectionsKey(l)).db,
         ScalarMin @@ SectionsKey(SectionList(1, "none"))).db :
       l \in {<<[name |-> "Audio", order |-> 1], [name |-> "Video"]>>, DescribedSections}}

InitReorder ==
    /\ db \in ReorderStores
    /\ last = NoCall
    /\ proc = ProcIdle
    /\ lp = LpIdle
    /\ answer = AnswerIdle
    /\ checklist_progress = ProgressIdle
    /\ learning = LearningIdle
    /\ reviews = ReviewsIdle
    /\ lms = LmsIdle

\* One call on each store.
ReorderSections(checklist_id, section_orders) ==
    /\ last.op = "none"
    /\ LET tx == reorder_sections(db, checklist_id, section_orders)
       IN /\ db' = tx.db
          /\ last' = [op |-> "reorder", cid |-> checklist_id, payload |-> section_orders,
                      exc |-> tx.exc, pre |-> db, work |-> tx.work]
    /\ UNCHANGED <<proc, lp, answer, checklist_progress, learning, reviews, lms>>

NextReorder ==
    \E checklist_id \in 1..MaxChecklists + 1, section_orders \in SectionOrderLists :
        ReorderSections(checklist_id, section_orders)

SpecReorder == InitReorder /\ [][NextReorder]_vars

\* The positions of the last call's list that name section sid.
ListedAt(sid) == {k \in DOMAIN last.payload : last.payload[k][1] = sid}

\* The sections of the called checklist, as they were before the call.
OwnSections == {s \in last.pre.sections : s.checklist = last.cid}

\* The call was given an order no row can hold, for a section of the checklist.
NegativeOrderGiven ==
    \E s \in OwnSections : \E k \in ListedAt(s.id) : last.payload[k][2] < 0

\* C30: reorder_sections(checklist_id, section_orders) changes the order
\* only of sections that belong to the given checklist: a listed section id
\* that belongs to another checklist or does not exist is skipped without
\* changing any row and without aborting the call, every listed section of
\* the checklist gets its new order (the last one listed for it), and the
\* sections not listed keep their order.  Nothing but the order column
\* changes.  (The orders are those a row can hold; a negative order for a
\* section of the checklist, or a checklist that does not exist, fails the
\* call and leaves every row as it was.)
C30_ReorderOnlyOwnSections ==
    last.op = "reorder" =>
        IF (\E c \in last.pre.checklists : c.id = last.cid) /\ ~NegativeOrderGiven
        THEN /\ ~CallFailed
             /\ db = [last.pre EXCEPT !.sections =
                        {IF s \in OwnSections /\ ListedAt(s.id) # {}
                         THEN [s EXCEPT !.order =
                                  last.payload[CHOOSE k \in ListedAt(s.id) :
                                                  \A j \in ListedAt(s.id) : j <= k][2]]
                         ELSE s : s \in last.pre.sections}]
        ELSE CallFailed /\ db = last.pre

\* A call on checklist 1 that lists a section of checklist 2 and one of its
\* own: it does not fail, the own section has the new order, and the other
\* checklist's section is as it was.
C30_Witness ==
    /\ last.op = "reorder" /\ ~CallFailed /\ last.cid = 1
    /\ last.payload = <<<<3, 0>>, <<2, 3>>>>
    /\ \E s \in db.sections : s.id = 2 /\ s.checklist = 1 /\ s.order = 3
    /\ \E s \in last.pre.sections : s.id = 2 /\ s.order # 3
    /\ \E s \in db.sections : s.id = 3 /\ s.checklist = 2 /\ s.order # 0

====
